---- MODULE Spec2Model ----
(***************************************************************************)
(* Twisty-puzzle engine: AnimationQueue, PuzzleEngine, CubePuzzle,         *)
(* PyraminxPuzzle and MegaminxPuzzle, modelled as state machines over      *)
(* exact integer arithmetic.                                               *)
(*                                                                         *)
(* Units.  Cube coordinates are the source's values times CubeScale (100), *)
(* so CUBIE_SIZE 0.49 is 49, the membership epsilon 0.01 is 1 and the      *)
(* vertex-classification epsilon 0.1 is 10.  Pyraminx coordinates are the  *)
(* source's values times PyraScale * N (120 N): latticePoint's division by *)
(* N, the centroid's division by 4 or 6 and the 0.90 shrink are then exact *)
(* integer operations.  Megaminx coordinates are numbers a + b phi of the  *)
(* golden field in units of 1/MegaScale (vertices) and 1/MegaCentroidScale *)
(* (centroids).  Times are milliseconds.                                   *)
(***************************************************************************)
EXTENDS Integers, Sequences, FiniteSets, TLC

VARIABLES
    puzzle,        \* PuzzleEngine.puzzle: "cube", "pyraminx" or "megaminx"
    config,        \* PuzzleEngine.config
    pieces,        \* PuzzleEngine.pieces, the piece store
    queue,         \* AnimationQueue.queue
    current,       \* AnimationQueue.current (NoMove for null)
    moveStart,     \* AnimationQueue.moveStart
    moveDuration,  \* AnimationQueue.moveDuration
    time,          \* timestamp of the last frame (requestAnimationFrame clock)
    ret,           \* value returned by the last AnimationQueue.update call
    selectedDepth, \* InputManager.selectedDepth
    selected,      \* InputManager.selected (NoSelection for null)
    enqueued,      \* number of queueMove calls so far (identity of queued moves)
    committed,     \* ids of the moves handed to applyRotation, in call order
    history,       \* moves handed to queueMove since the piece store was built
    run            \* bookkeeping of consecutive identical applyRotation calls

vars == <<puzzle, config, pieces, queue, current, moveStart, moveDuration,
          time, ret, selectedDepth, selected, enqueued, committed, history, run, selected>>

----------------------------------------------------------------------------
(* Bounds of the model *)

MaxEnqueued == 2      \* queueMove calls by key explored per behaviour
MaxTime == 300        \* last frame timestamp explored (ms)
MaxRunTime == 1400    \* the same, in the specification without cancellation
MaxGap == 4           \* longest gap between two frames, in FrameGrain units
FrameGrain == 100     \* granularity of the frame timestamps explored (ms)
MaxApplied == 3       \* scramble moves applied before a series in the algebra specs
MaxRun == 4           \* consecutive identical applications that are counted
MaxCubeN == 4         \* largest cube size explored in the algebra specs
MaxPyraN == 4         \* largest pyraminx size explored in the algebra specs
MaxUndo == 2          \* free moves committed before they are undone

----------------------------------------------------------------------------
(* Generic helpers *)

NoMove == [none |-> TRUE]
NoSticker == [none |-> TRUE]
NoSelection == [none |-> TRUE]

Abs(x) == IF x < 0 THEN -x ELSE x
Min2(x, y) == IF x < y THEN x ELSE y
Max2(x, y) == IF x > y THEN x ELSE y
CeilHalf(n) == (n + 1) \div 2

Range(s) == {s[i] : i \in DOMAIN s}

\* [0,1,2].filter(i => i !== axis), ascending
OtherAxes(axis) == IF axis = 0 THEN <<1, 2>> ELSE IF axis = 1 THEN <<0, 2>> ELSE <<0, 1>>

----------------------------------------------------------------------------
(* CubeConstants.js / CubePuzzle.js *)

CubeScale == 100
CUBIE_SIZE == 49
SPEED_MIN == 50
SPEED_MAX == 1000

CUBE_FACE_DEFS ==
    [d \in 0..5 |->
        CASE d = 0 -> [idx |-> <<0, 4, 5, 1>>, axis |-> 1, dir |-> -1]
          [] d = 1 -> [idx |-> <<2, 3, 7, 6>>, axis |-> 1, dir |-> 1]
          [] d = 2 -> [idx |-> <<0, 1, 3, 2>>, axis |-> 0, dir |-> -1]
          [] d = 3 -> [idx |-> <<4, 6, 7, 5>>, axis |-> 0, dir |-> 1]
          [] d = 4 -> [idx |-> <<1, 5, 7, 3>>, axis |-> 2, dir |-> 1]
          [] d = 5 -> [idx |-> <<0, 2, 6, 4>>, axis |-> 2, dir |-> -1]]

FACE_UV ==
    [d \in 0..5 |->
        CASE d = 0 -> <<0, 2>>
          [] d = 1 -> <<2, 0>>
          [] d = 2 -> <<2, 1>>
          [] d = 3 -> <<1, 2>>
          [] d = 4 -> <<0, 1>>
          [] d = 5 -> <<1, 0>>]

faceColorIndex(axis, dir) ==
    IF axis = 1 THEN (IF dir > 0 THEN 1 ELSE 0)
    ELSE IF axis = 0 THEN (IF dir > 0 THEN 3 ELSE 2)
    ELSE (IF dir > 0 THEN 4 ELSE 5)

CubeBaseMoves ==
    [k \in {"u", "d", "l", "r", "f", "b"} |->
        CASE k = "u" -> [axis |-> 1, side |-> -1, dir |-> -1]
          [] k = "d" -> [axis |-> 1, side |-> 1, dir |-> 1]
          [] k = "l" -> [axis |-> 0, side |-> -1, dir |-> -1]
          [] k = "r" -> [axis |-> 0, side |-> 1, dir |-> 1]
          [] k = "f" -> [axis |-> 2, side |-> 1, dir |-> 1]
          [] k = "b" -> [axis |-> 2, side |-> -1, dir |-> -1]]

CubeDefaultConfig == [N |-> 3, borderWidth |-> 2, selectedDepth |-> 1, imageMode |-> FALSE]

\* onConfigChange: half = (N-1)/2 (scaled), borderWidth clamped to ceil(N/2)
CubeOnConfigChange(cfg) ==
    [N |-> cfg.N,
     borderWidth |-> Min2(cfg.borderWidth, CeilHalf(cfg.N)),
     selectedDepth |-> cfg.selectedDepth,
     imageMode |-> cfg.imageMode,
     half |-> (CubeScale * (cfg.N - 1)) \div 2]

CubeResolveMove(baseMove, reversed, cfg) ==
    [axis |-> baseMove.axis,
     layer |-> baseMove.side * (cfg.half - CubeScale * (cfg.selectedDepth - 1)),
     dir |-> IF reversed THEN -baseMove.dir ELSE baseMove.dir]

\* The grid coordinates createPieces visits, in loop order (xi, yi, zi)
CubeGrid(N) ==
    [k \in 1..(N * N * N) |->
        [a \in 0..2 |->
            CASE a = 0 -> (k - 1) \div (N * N)
              [] a = 1 -> ((k - 1) \div N) % N
              [] a = 2 -> (k - 1) % N]]

CubeKeep(coords, N, borderWidth) ==
    \E a \in 0..2 :
        /\ coords[a] = 0 \/ coords[a] = N - 1
        /\ LET o == OtherAxes(a)
               d == Min2(Min2(coords[o[1]], N - 1 - coords[o[1]]),
                         Min2(coords[o[2]], N - 1 - coords[o[2]]))
           IN d < borderWidth

CubeCorner(m, i) ==
    [a \in 0..2 |->
        LET bit == CASE a = 0 -> i \div 4
                     [] a = 1 -> (i % 4) \div 2
                     [] a = 2 -> i % 2
        IN m[a] + (2 * bit - 1) * CUBIE_SIZE]

CubeMakePiece(coords, cfg) ==
    LET m == [a \in 0..2 |-> CubeScale * coords[a] - cfg.half]
    IN [m |-> m,
        p |-> [i \in 0..7 |-> CubeCorner(m, i)],
        stickers |->
            [d \in 0..5 |->
                LET def == CUBE_FACE_DEFS[d]
                IN IF \/ def.dir = -1 /\ coords[def.axis] = 0
                      \/ def.dir = 1 /\ coords[def.axis] = cfg.N - 1
                   THEN [faceId |-> faceColorIndex(def.axis, def.dir),
                         u |-> coords[FACE_UV[d][1]],
                         v |-> coords[FACE_UV[d][2]]]
                   ELSE NoSticker]]

CubeCreatePieces(cfg) ==
    LET keep(c) == CubeKeep(c, cfg.N, cfg.borderWidth)
        kept == SelectSeq(CubeGrid(cfg.N), keep)
    IN [i \in 1..Len(kept) |-> CubeMakePiece(kept[i], cfg)]

\* the rotation written without the temporaries x, y: the second store reads
\* the coordinate the first store has just overwritten
CubeRotateVecNoTemp(v, axis, dir) ==
    LET a == OtherAxes(axis)[1]
        b == OtherAxes(axis)[2]
    IN [v EXCEPT ![a] = -v[b] * dir, ![b] = (-v[b] * dir) * dir]

\* a quarter turn that turns the same way whatever dir is
CubeRotateVecIgnoreDir(v, axis, dir) ==
    LET a == OtherAxes(axis)[1]
        b == OtherAxes(axis)[2]
    IN [v EXCEPT ![a] = -v[b], ![b] = v[a]]

\* new a = -b*dir, new b = a*dir on the two non-axis coordinates
CubeRotateVec(v, axis, dir) ==
    LET a == OtherAxes(axis)[1]
        b == OtherAxes(axis)[2]
    IN [v EXCEPT ![a] = -v[b] * dir, ![b] = v[a] * dir]

\* applyRotation without its membership test
CubeSkippedNever(c, move) == FALSE

\* the membership test with epsilon 1.01 in place of 0.01
CubeSkippedWide(c, move) == Abs(c.m[move.axis] - move.layer) > CubeScale + 1

\* applyRotation's own membership test: skip when |m[axis] - layer| > 0.01
CubeSkipped(c, move) == Abs(c.m[move.axis] - move.layer) > 1

CubeApplyRotation(ps, move) ==
    [i \in DOMAIN ps |->
        IF CubeSkipped(ps[i], move) THEN ps[i]
        ELSE [ps[i] EXCEPT !.m = CubeRotateVec(ps[i].m, move.axis, move.dir),
                           !.p = [j \in 0..7 |->
                                     CubeRotateVec(ps[i].p[j], move.axis, move.dir)]]]

\* the default test with epsilon 1.01 in place of 0.01
DefaultIsPieceInMoveWide(piece, move) == Abs(piece.m[move.axis] - move.layer) < CubeScale + 1

\* PuzzleDefinition.isPieceInMove (default, used by the cube)
DefaultIsPieceInMove(piece, move) == Abs(piece.m[move.axis] - move.layer) < 1

----------------------------------------------------------------------------
(* PyraminxConstants.js / PyraminxPuzzle.js *)

PyraScale == 120
PYRA_FACE_COUNT == 8

PARENT_VERTS ==
    [i \in 0..3 |->
        CASE i = 0 -> [a \in 0..2 |-> 1]
          [] i = 1 -> [a \in 0..2 |-> IF a = 0 THEN 1 ELSE -1]
          [] i = 2 -> [a \in 0..2 |-> IF a = 1 THEN 1 ELSE -1]
          [] i = 3 -> [a \in 0..2 |-> IF a = 2 THEN 1 ELSE -1]]

\* AXES[i] is PARENT_VERTS[i] / sqrt(3); the model keeps the unnormalised vector
AXES == PARENT_VERTS

UPRIGHT_STICKER_SLOT == [f \in 0..3 |-> CASE f = 0 -> 1 [] f = 1 -> 5 [] f = 2 -> 3 [] f = 3 -> 4]

\* latticePoint(a,b,c,d,N), in units of 1/(PyraScale*N)
latticePoint(a, b, c, d) ==
    [x \in 0..2 |->
        PyraScale * (a * PARENT_VERTS[0][x] + b * PARENT_VERTS[1][x]
                     + c * PARENT_VERTS[2][x] + d * PARENT_VERTS[3][x])]

PyraDefaultConfig == [N |-> 3, selectedDepth |-> 1]

PyraOnConfigChange(cfg) == cfg

PyraBaseMoves ==
    [k \in {"u", "l", "r", "b", "i", "j", "k", "o"} |->
        CASE k = "u" -> [vertex |-> 0, depth |-> 0, dir |-> 1]
          [] k = "l" -> [vertex |-> 1, depth |-> 0, dir |-> 1]
          [] k = "r" -> [vertex |-> 2, depth |-> 0, dir |-> 1]
          [] k = "b" -> [vertex |-> 3, depth |-> 0, dir |-> 1]
          [] k = "i" -> [vertex |-> 0, depth |-> -1, dir |-> 1]
          [] k = "j" -> [vertex |-> 1, depth |-> -1, dir |-> 1]
          [] k = "k" -> [vertex |-> 2, depth |-> -1, dir |-> 1]
          [] k = "o" -> [vertex |-> 3, depth |-> -1, dir |-> 1]]

\* config.selectedDepth || 1 : 0 is falsy
PyraResolveMove(baseMove, reversed, cfg) ==
    [vertex |-> baseMove.vertex,
     axis |-> AXES[baseMove.vertex],
     depth |-> IF baseMove.depth = -1
               THEN Min2(IF cfg.selectedDepth = 0 THEN 1 ELSE cfg.selectedDepth, cfg.N - 1)
               ELSE baseMove.depth,
     dir |-> IF reversed THEN -baseMove.dir ELSE baseMove.dir]

\* (a,b,c) with a+b+c <= S in the order of the three nested loops
PyraTriples(S) ==
    LET all == [k \in 1..((S + 1) * (S + 1) * (S + 1)) |->
                   <<(k - 1) \div ((S + 1) * (S + 1)),
                     ((k - 1) \div (S + 1)) % (S + 1),
                     (k - 1) % (S + 1)>>]
        ok(t) == t[1] + t[2] + t[3] <= S
    IN SelectSeq(all, ok)

\* m + (v - m) * SHRINK with SHRINK = 0.90
PyraShrink(m, v) == [x \in 0..2 |-> m[x] + ((v[x] - m[x]) * 9) \div 10]

\* the barycentric coordinates as a list indexed from 0
PyraBary(a, b, c, d) ==
    [i \in 0..3 |-> CASE i = 0 -> a [] i = 1 -> b [] i = 2 -> c [] i = 3 -> d]

\* centroid of the first n of the points v
PyraCentroid(v, n) ==
    [x \in 0..2 |-> (IF n = 4 THEN v[1][x] + v[2][x] + v[3][x] + v[4][x]
                     ELSE v[1][x] + v[2][x] + v[3][x] + v[4][x] + v[5][x] + v[6][x]) \div n]

\* an upright cell from its corners v, centroid m and coordinates bary
PyraUprightAbout(v, m, bary, N) ==
    [m |-> m,
     p |-> [i \in 0..5 |-> PyraShrink(m, v[IF i < 4 THEN i + 1 ELSE i - 1])],
     stickers |-> [s \in 0..(PYRA_FACE_COUNT - 1) |->
                     IF \E f \in 0..3 : bary[f] = 0 /\ UPRIGHT_STICKER_SLOT[f] = s
                     THEN [faceId |-> CHOOSE f \in 0..3 : UPRIGHT_STICKER_SLOT[f] = s]
                     ELSE NoSticker],
     bary |-> bary,
     barySum |-> N - 1,
     isGap |-> FALSE]

PyraUprightOf(v, bary, N) == PyraUprightAbout(v, PyraCentroid(v, 4), bary, N)

PyraUprightAt(a, b, c, d, N) ==
    PyraUprightOf(<<latticePoint(a + 1, b, c, d), latticePoint(a, b + 1, c, d),
                    latticePoint(a, b, c + 1, d), latticePoint(a, b, c, d + 1)>>,
                  PyraBary(a, b, c, d), N)

PyraUpright(t, N) == PyraUprightAt(t[1], t[2], t[3], N - 1 - t[1] - t[2] - t[3], N)

\* a gap cell from its corners raw, centroid m and coordinates bary
PyraGapAbout(raw, m, bary, N) ==
    [m |-> m,
     p |-> [i \in 0..5 |-> PyraShrink(m, raw[i + 1])],
     stickers |-> [s \in 0..(PYRA_FACE_COUNT - 1) |->
                     IF s <= 3 /\ bary[s] = 0 THEN [faceId |-> s] ELSE NoSticker],
     bary |-> bary,
     barySum |-> N - 2,
     isGap |-> TRUE]

PyraGapOf(raw, bary, N) == PyraGapAbout(raw, PyraCentroid(raw, 6), bary, N)

PyraGapAt(a, b, c, d, N) ==
    PyraGapOf(<<latticePoint(a + 1, b + 1, c, d), latticePoint(a + 1, b, c + 1, d),
                latticePoint(a + 1, b, c, d + 1), latticePoint(a, b + 1, c + 1, d),
                latticePoint(a, b + 1, c, d + 1), latticePoint(a, b, c + 1, d + 1)>>,
              PyraBary(a, b, c, d), N)

PyraGap(t, N) == PyraGapAt(t[1], t[2], t[3], N - 2 - t[1] - t[2] - t[3], N)

PyraCreatePieces(cfg) ==
    LET N == cfg.N
        up == PyraTriples(N - 1)
        gap == IF N >= 2 THEN PyraTriples(N - 2) ELSE <<>>
    IN [i \in 1..Len(up) |-> PyraUpright(up[i], N)]
       \o [i \in 1..Len(gap) |-> PyraGap(gap[i], N)]

\* the layer test reading the component after the turning vertex's one
PyraIsPieceInMoveNextIndex(piece, move) ==
    piece.barySum - piece.bary[(move.vertex + 1) % 4] + (IF piece.isGap THEN 1 ELSE 0)
        <= move.depth

\* the layer test without the gap pieces' extra layer
PyraIsPieceInMoveNoGap(piece, move) ==
    piece.barySum - piece.bary[move.vertex] <= move.depth

PyraIsPieceInMove(piece, move) ==
    piece.barySum - piece.bary[move.vertex] + (IF piece.isGap THEN 1 ELSE 0) <= move.depth

\* [0,1,2,3].filter(i => i !== vertex), ascending, indexed 0..2
PyraOthers(vertex) == [k \in 0..2 |-> IF k < vertex THEN k ELSE k + 1]

Cross(u, v) ==
    [x \in 0..2 |->
        CASE x = 0 -> u[1] * v[2] - u[2] * v[1]
          [] x = 1 -> u[2] * v[0] - u[0] * v[2]
          [] x = 2 -> u[0] * v[1] - u[1] * v[0]]

Dot(u, v) == u[0] * v[0] + u[1] * v[1] + u[2] * v[2]

\* math.js rotatePointAroundAxis (Rodrigues) for axis u/sqrt(3) and angle dir*120deg:
\* v cos + (k x v) sin + k (k.v)(1 - cos) = (-v + dir (u x v) + u (u.v)) / 2
RotatePointAroundAxis(v, u, dir) ==
    LET c == Cross(u, v)
        d == Dot(u, v)
        r0 == (-v[0] + dir * c[0] + u[0] * d) \div 2
        r1 == (-v[1] + dir * c[1] + u[1] * d) \div 2
        r2 == (-v[2] + dir * c[2] + u[2] * d) \div 2
    IN [x \in 0..2 |-> CASE x = 0 -> r0 [] x = 1 -> r1 [] x = 2 -> r2]

\* an exchange of two components in place of the three-cycle
PyraSwapBary(bary, vertex, dir) ==
    LET o == PyraOthers(vertex)
    IN IF dir = 1
       THEN [bary EXCEPT ![o[0]] = bary[o[1]], ![o[1]] = bary[o[0]]]
       ELSE [bary EXCEPT ![o[1]] = bary[o[2]], ![o[2]] = bary[o[1]]]

\* the exact cyclic reassignment of the three non-vertex bary components
PyraCycleBary(bary, vertex, dir) ==
    LET o == PyraOthers(vertex)
    IN IF dir = 1
       THEN [bary EXCEPT ![o[0]] = bary[o[2]], ![o[1]] = bary[o[0]], ![o[2]] = bary[o[1]]]
       ELSE [bary EXCEPT ![o[0]] = bary[o[1]], ![o[1]] = bary[o[2]], ![o[2]] = bary[o[0]]]

PyraApplyRotation(ps, move) ==
    [i \in DOMAIN ps |->
        IF ~PyraIsPieceInMove(ps[i], move) THEN ps[i]
        ELSE [ps[i] EXCEPT
                !.p = [j \in 0..5 |-> RotatePointAroundAxis(ps[i].p[j], move.axis, move.dir)],
                !.m = RotatePointAroundAxis(ps[i].m, move.axis, move.dir),
                !.bary = PyraCycleBary(ps[i].bary, move.vertex, move.dir)]]

----------------------------------------------------------------------------
(* MegaminxConstants.js / MegaminxPuzzle.js                                 *)
(* Every coordinate of the megaminx lies in the field Q(phi),               *)
(* phi = (1 + sqrt 5)/2.  The number (a + b phi)/d is the record [a, b, d]  *)
(* in lowest terms with d > 0, and phi * phi = phi + 1 makes the arithmetic *)
(* of the construction exact where the code rounds to doubles.              *)

RECURSIVE Gcd(_, _)
Gcd(x, y) == IF y = 0 THEN x ELSE Gcd(y, x % y)

\* (a + b phi)/d divided through by g > 0, with the sign s of d
PhiLowest(a, b, d, g, s) ==
    [a |-> s * (a \div g), b |-> s * (b \div g), d |-> s * (d \div g)]

PhiNum(a, b, d) ==
    PhiLowest(a, b, d, Gcd(Gcd(Abs(a), Abs(b)), Abs(d)), IF d < 0 THEN -1 ELSE 1)

PhiInt(n) == [a |-> n, b |-> 0, d |-> 1]
PhiRat(n, d) == PhiNum(n, 0, d)

PhiAdd(x, y) == PhiNum(x.a * y.d + y.a * x.d, x.b * y.d + y.b * x.d, x.d * y.d)
PhiNeg(x) == [a |-> -x.a, b |-> -x.b, d |-> x.d]
PhiSub(x, y) == PhiAdd(x, PhiNeg(y))
PhiMul(x, y) ==
    PhiNum(x.a * y.a + x.b * y.b, x.a * y.b + x.b * y.a + x.b * y.b, x.d * y.d)
\* 1/(a + b phi) = (a + b - b phi)/(a*a + a*b - b*b)
PhiDiv(x, y) ==
    PhiMul(x, PhiNum(y.d * (y.a + y.b), -(y.d * y.b), y.a * y.a + y.a * y.b - y.b * y.b))

\* the sign of a + b phi for integers a, b: 1 < phi < 2 settles the far cases,
\* and a - y phi = -(y - (a - y) phi)/phi reduces the near ones
RECURSIVE SignPhi(_, _)
SignPhi(a, b) ==
    IF a >= 0 /\ b >= 0 THEN (IF a = 0 /\ b = 0 THEN 0 ELSE 1)
    ELSE IF a <= 0 /\ b <= 0 THEN -1
    ELSE IF a < 0 THEN -SignPhi(-a, -b)
    ELSE IF a >= 2 * (-b) THEN 1
    ELSE IF a <= -b THEN -1
    ELSE -SignPhi(-b, -(a + b))

PhiSign(x) == SignPhi(x.a, x.b)
PhiLess(x, y) == PhiSign(PhiSub(x, y)) < 0

\* the function f as an explicit table: a function constructor is evaluated
\* afresh on every application, the table holds each value once
Tabulated(f) == f @@ <<>>

\* Vector helpers
dot3(a, b) == PhiAdd(PhiAdd(PhiMul(a[0], b[0]), PhiMul(a[1], b[1])), PhiMul(a[2], b[2]))
cross3(a, b) ==
    Tabulated([x \in 0..2 |->
        CASE x = 0 -> PhiSub(PhiMul(a[1], b[2]), PhiMul(a[2], b[1]))
          [] x = 1 -> PhiSub(PhiMul(a[2], b[0]), PhiMul(a[0], b[2]))
          [] x = 2 -> PhiSub(PhiMul(a[0], b[1]), PhiMul(a[1], b[0]))])
sub3(a, b) == Tabulated([x \in 0..2 |-> PhiSub(a[x], b[x])])
add3(a, b) == Tabulated([x \in 0..2 |-> PhiAdd(a[x], b[x])])
scale3(a, s) == Tabulated([x \in 0..2 |-> PhiMul(a[x], s)])
lerp3(a, b, t) == Tabulated([x \in 0..2 |-> PhiAdd(a[x], PhiMul(t, PhiSub(b[x], a[x])))])

\* the sum of the vectors f[0], ..., f[n - 1]
RECURSIVE Sum3(_, _)
Sum3(f, n) == IF n = 1 THEN f[0] ELSE add3(Sum3(f, n - 1), f[n - 1])

\* Intersect two coplanar 3D lines: P1 + t*D1 and P2 + s*D2, with
\* t = dot3(cross3(P2 - P1, D2), N) / dot3(cross3(D1, D2), N)
lineIntersect(P1, D1, P2, D2, N) ==
    add3(P1, scale3(D1, PhiDiv(dot3(cross3(sub3(P2, P1), D2), N),
                               dot3(cross3(D1, D2), N))))

PHI == [a |-> 0, b |-> 1, d |-> 1]
INV_PHI == PhiSub(PHI, PhiInt(1))

Vec3(x, y, z) == Tabulated([k \in 0..2 |-> CASE k = 0 -> x [] k = 1 -> y [] k = 2 -> z])

\* the rows of VERTS over the seven numbers that occur in them
VertexRows(p1, m1, z0, ip, mi, ph, mp) ==
    Tabulated([i \in 0..19 |->
        CASE i = 0 -> Vec3(p1, p1, p1) [] i = 1 -> Vec3(p1, p1, m1)
          [] i = 2 -> Vec3(p1, m1, p1) [] i = 3 -> Vec3(p1, m1, m1)
          [] i = 4 -> Vec3(m1, p1, p1) [] i = 5 -> Vec3(m1, p1, m1)
          [] i = 6 -> Vec3(m1, m1, p1) [] i = 7 -> Vec3(m1, m1, m1)
          [] i = 8 -> Vec3(z0, ip, ph) [] i = 9 -> Vec3(z0, ip, mp)
          [] i = 10 -> Vec3(z0, mi, ph) [] i = 11 -> Vec3(z0, mi, mp)
          [] i = 12 -> Vec3(ip, ph, z0) [] i = 13 -> Vec3(ip, mp, z0)
          [] i = 14 -> Vec3(mi, ph, z0) [] i = 15 -> Vec3(mi, mp, z0)
          [] i = 16 -> Vec3(ph, z0, ip) [] i = 17 -> Vec3(ph, z0, mi)
          [] i = 18 -> Vec3(mp, z0, ip) [] i = 19 -> Vec3(mp, z0, mi)])

\* the 20 dodecahedron vertices
VERTS ==
    VertexRows(PhiInt(1), PhiInt(-1), PhiInt(0), INV_PHI, PhiNeg(INV_PHI), PHI, PhiNeg(PHI))

\* _NR * _NR = 1 + PHI * PHI
NR_SQUARED == PhiAdd(PhiInt(1), PhiMul(PHI, PHI))

\* the rows of NORMALS over the five numbers that occur in them
NormalRows(p1, m1, z0, ph, mp) ==
    Tabulated([i \in 0..11 |->
        CASE i = 0 -> Vec3(z0, ph, p1) [] i = 1 -> Vec3(z0, ph, m1)
          [] i = 2 -> Vec3(z0, mp, p1) [] i = 3 -> Vec3(z0, mp, m1)
          [] i = 4 -> Vec3(ph, p1, z0) [] i = 5 -> Vec3(ph, m1, z0)
          [] i = 6 -> Vec3(mp, p1, z0) [] i = 7 -> Vec3(mp, m1, z0)
          [] i = 8 -> Vec3(p1, z0, ph) [] i = 9 -> Vec3(p1, z0, mp)
          [] i = 10 -> Vec3(m1, z0, ph) [] i = 11 -> Vec3(m1, z0, mp)])

\* the 12 face normals; the code divides each by _NR, the model keeps the
\* unnormalised vector and carries _NR where a length matters
NORMALS == NormalRows(PhiInt(1), PhiInt(-1), PhiInt(0), PHI, PhiNeg(PHI))

\* members of a finite set of integers in ascending order, indexed from 0
Ascending(S) ==
    Tabulated([k \in 0..(Cardinality(S) - 1) |->
                  CHOOSE x \in S : Cardinality({y \in S : y < x}) = k])

\* Math.atan2(y, x) orders the plane from -pi (exclusive) to pi: the lower
\* half plane, the positive x axis, the upper half plane, the negative x axis
AngleClass(x, y) ==
    IF PhiSign(y) < 0 THEN 0
    ELSE IF PhiSign(y) > 0 THEN 2
    ELSE IF PhiSign(x) >= 0 THEN 1 ELSE 3

\* the order of two directions of the classes c1 and c2
ClassedBefore(c1, c2, x1, y1, x2, y2) ==
    \/ c1 < c2
    \/ /\ c1 = c2
       /\ c1 \in {0, 2}
       /\ PhiSign(PhiSub(PhiMul(x1, y2), PhiMul(x2, y1))) > 0

\* atan2(y1, x1) < atan2(y2, x2)
AngleBefore(x1, y1, x2, y2) ==
    ClassedBefore(AngleClass(x1, y1), AngleClass(x2, y2), x1, y1, x2, y2)

\* computeFaces, one face at a time: the five vertices of largest dot product
\* with the normal, sorted by their angle in the tangent basis (u, v).  u and
\* v are left unnormalised: positive factors on the two coordinates change
\* neither the half plane nor the orientation of a pair, so the order is the
\* code's.

\* dots.sort((a, b) => b.d - a.d): the place of each vertex in the stable
\* descending order of the dot products d
DotRank(d) ==
    Tabulated([i \in 0..19 |->
        Cardinality({j \in 0..19 : PhiLess(d[i], d[j]) \/ (d[j] = d[i] /\ j < i)})])

\* dots.slice(0, 5).map(x => x.i) for the normal
TopFive(verts, normal) ==
    LET rank == DotRank(Tabulated([i \in 0..19 |-> dot3(verts[i], normal)]))
    IN Tabulated([k \in 0..4 |-> CHOOSE i \in 0..19 : rank[i] = k])

\* u = cross3(normal, ref), ref the x axis unless |dot3(normal, ref)| > 0.9
\* for the normalised normal
TangentU(normal) ==
    cross3(normal,
           IF PhiLess(PhiMul(PhiRat(81, 100), NR_SQUARED), PhiMul(normal[0], normal[0]))
           THEN Vec3(PhiInt(0), PhiInt(1), PhiInt(0))
           ELSE Vec3(PhiInt(1), PhiInt(0), PhiInt(0)))

\* sorted.sort((a, b) => a.angle - b.angle): the place of each of the five
\* tangent coordinates (x[k], y[k]) in the stable ascending order of angles
AnglePlace(x, y) ==
    Tabulated([k \in 0..4 |->
        Cardinality({j \in 0..4 :
            \/ AngleBefore(x[j], y[j], x[k], y[k])
            \/ /\ ~AngleBefore(x[k], y[k], x[j], y[j])
               /\ j < k})])

\* top5 in the order of the places pos
Placed(top5, pos) == Tabulated([k \in 0..4 |-> top5[CHOOSE j \in 0..4 : pos[j] = k]])

\* the vertices rel (taken from the face center) sorted in the basis (u, v)
SortByAngle(top5, rel, u, v) ==
    Placed(top5, AnglePlace(Tabulated([k \in 0..4 |-> dot3(rel[k], u)]),
                            Tabulated([k \in 0..4 |-> dot3(rel[k], v)])))

\* the five corner points P of top5 about their center
AboutCenter(P, center) == Tabulated([k \in 0..4 |-> sub3(P[k], center)])

FaceAround(top5, P, normal, u) ==
    SortByAngle(top5, AboutCenter(P, scale3(Sum3(P, 5), PhiRat(1, 5))), u, cross3(normal, u))

FaceOf(verts, normal, top5) ==
    FaceAround(top5, Tabulated([k \in 0..4 |-> verts[top5[k]]]), normal, TangentU(normal))

FaceOfNormal(verts, normal) == FaceOf(verts, normal, TopFive(verts, normal))

FaceTable(verts, normals) == Tabulated([f \in 0..11 |-> FaceOfNormal(verts, normals[f])])

\* the 12 pentagonal faces
computeFaces == FaceTable(VERTS, NORMALS)

FACES == computeFaces

\* the 60 (face, edge index) pairs in the order the loops visit them
EdgeSlot(faces, s) ==
    [fi |-> s \div 5, j |-> s % 5,
     a |-> faces[s \div 5][s % 5], b |-> faces[s \div 5][((s % 5) + 1) % 5]]

EdgeKey(slot) == {slot.a, slot.b}

\* one edge of the map: the slot s that inserted it and the slots of its key
EdgeEntry(slot, s, slots) ==
    [verts |-> <<slot[s].a, slot[s].b>>,
     faces |-> Tabulated([n \in DOMAIN slots |-> slot[slots[n]].fi]),
     edgeInFace |-> Tabulated([fi \in {slot[t].fi : t \in Range(slots)} |->
                        slot[CHOOSE t \in Range(slots) : slot[t].fi = fi].j])]

\* the 30 edges in insertion order of the map (Object.values), first the
\* slots that insert a new key
EdgeTable(slot, first) ==
    Tabulated([k \in DOMAIN first |->
        EdgeEntry(slot, first[k],
                  Ascending({t \in 0..59 : EdgeKey(slot[t]) = EdgeKey(slot[first[k]])}))])

EdgesOfSlots(slot) ==
    EdgeTable(slot, Ascending({s \in 0..59 :
                        \A t \in 0..(s - 1) : EdgeKey(slot[t]) # EdgeKey(slot[s])}))

computeEdges(faces) == EdgesOfSlots(Tabulated([s \in 0..59 |-> EdgeSlot(faces, s)]))

EDGES == computeEdges(FACES)

\* vertex -> faces, each list in ascending face order
computeVertexFaces(faces) ==
    Tabulated([vi \in 0..19 |-> Ascending({fi \in 0..11 : vi \in Range(faces[fi])})])

VERTEX_FACES == computeVertexFaces(FACES)

\* Geometry parameters
CUT_DEPTH == PhiRat(45, 100)
SHRINK == PhiRat(98, 100)
THICKNESS == PhiRat(35, 100)
LAYER_THRESHOLD == PhiRat(105, 100)

\* computeFaceStickers in its steps.  lineIntersect takes the normal only in
\* a quotient, where _NR cancels.

\* cutP: the cut line of edge k passes through the edge midpoint moved
\* towards the face center C
CutPoints(V, C) ==
    Tabulated([k \in 0..4 |->
        lerp3(lerp3(V[k], V[(k + 1) % 5], PhiRat(1, 2)), C, CUT_DEPTH)])

\* cutD and edgeDir: the direction of edge k
EdgeDirs(V) == Tabulated([k \in 0..4 |-> sub3(V[(k + 1) % 5], V[k])])

\* line k of (P, D) met with line k + shift of (cutP, cutD)
CutMeets(P, D, cutP, cutD, shift, normal) ==
    Tabulated([k \in 0..4 |->
        lineIntersect(P[k], D[k], cutP[(k + shift) % 5], cutD[(k + shift) % 5], normal)])

\* center (5 points), edges (5 quads), corners (5 quads)
StickerQuads(V, Q, cutNear, cutFar) ==
    [center |-> Q,
     edges |-> Tabulated([j \in 0..4 |->
                   (0 :> cutNear[j]) @@ (1 :> cutFar[j]) @@ (2 :> Q[j])
                       @@ (3 :> Q[(j + 4) % 5])]),
     corners |-> Tabulated([k \in 0..4 |->
                     (0 :> cutNear[k]) @@ (1 :> Q[(k + 4) % 5])
                         @@ (2 :> cutFar[(k + 4) % 5]) @@ (3 :> V[k])])]

StickersOfMeets(V, meets) == StickerQuads(V, meets[0], meets[1], meets[2])

\* Q, cutNear and cutFar: shifts 1, 4 and 1 of the cut lines
StickerMeets(V, normal, cutP, cutD) ==
    Tabulated([n \in 0..2 |->
        CutMeets(IF n = 0 THEN cutP ELSE V, cutD, cutP, cutD,
                 IF n = 1 THEN 4 ELSE 1, normal)])

StickersOfFace(V, normal, cutP, cutD) ==
    StickersOfMeets(V, StickerMeets(V, normal, cutP, cutD))

StickersOfVerts(V, normal) ==
    StickersOfFace(V, normal, CutPoints(V, scale3(Sum3(V, 5), PhiRat(1, 5))), EdgeDirs(V))

\* sticker geometry of one dodecahedron face
computeFaceStickers(verts, normals, faces, faceIdx) ==
    StickersOfVerts(Tabulated([k \in 0..4 |-> verts[faces[faceIdx][k]]]), normals[faceIdx])

faceStickers(verts, normals, faces) ==
    Tabulated([fi \in 0..11 |-> computeFaceStickers(verts, normals, faces, fi)])

\* units of the stored coordinates: a stored number is the pair <<a, b>> for
\* (a + b phi)/MegaScale in the vertices p and (a + b phi)/MegaCentroidScale
\* in the centroid m.  These are the common denominators of createPieces, and
\* the turns by 72 degrees about a face normal keep them.
MegaScale == 400000
MegaCentroidScale == 400

PhiUnits(x, scale) == <<x.a * (scale \div x.d), x.b * (scale \div x.d)>>
Units3(v, scale) == Tabulated([x \in 0..2 |-> PhiUnits(v[x], scale)])

\* number of entries of a list indexed from 0
Length(f) == Cardinality(DOMAIN f)

\* the lists head and verts one after the other
Concat(head, verts, n) ==
    Tabulated([k \in 0..(n + Length(verts) - 1) |->
        IF k < n THEN head[k] ELSE verts[k - n]])

\* stickerFaces.flatMap(f => f.verts), over the first n sticker faces
RECURSIVE FlatVerts(_, _)
FlatVerts(stickerFaces, n) ==
    IF n = 0 THEN <<>>
    ELSE Concat(FlatVerts(stickerFaces, n - 1), stickerFaces[n - 1].verts,
                Length(FlatVerts(stickerFaces, n - 1)))

\* entry j of a vertex list, the last one past its end
Clamped(verts, j) == verts[Min2(j, Length(verts) - 1)]

\* the list in reverse order
Reversed(first) == Tabulated([k \in DOMAIN first |-> first[Length(first) - 1 - k]])

\* point i of a piece: the sticker faces first, then the inner face, the
\* reversed first face drawn towards the origin, then the centroid as filler
MegaPoint(stickerFaces, count, centroid, i) ==
    IF i \div 5 < count /\ i \div 5 < 3
    THEN lerp3(centroid, Clamped(stickerFaces[i \div 5].verts, i % 5), SHRINK)
    ELSE IF i \div 5 = Min2(count, 3)
    THEN scale3(lerp3(centroid, Clamped(Reversed(stickerFaces[0].verts), i % 5), SHRINK),
                PhiSub(PhiInt(1), THICKNESS))
    ELSE centroid

MegaPieceAbout(stickerFaces, count, centroid) ==
    [m |-> Units3(centroid, MegaCentroidScale),
     p |-> Tabulated([i \in 0..44 |->
               Units3(MegaPoint(stickerFaces, count, centroid, i), MegaScale)]),
     stickers |-> Tabulated([d \in 0..8 |->
                     IF d < count /\ d < 3
                     THEN [faceId |-> stickerFaces[d].faceId]
                     ELSE NoSticker])]

MegaPieceOfVerts(stickerFaces, allVerts, n) ==
    MegaPieceAbout(stickerFaces, Length(stickerFaces),
                   scale3(Sum3(allVerts, n), PhiRat(1, n)))

MegaPieceOf(stickerFaces, allVerts) ==
    MegaPieceOfVerts(stickerFaces, allVerts, Length(allVerts))

\* makePiece of createPieces: a piece from its sticker face descriptions
MegaMakePiece(stickerFaces) ==
    MegaPieceOf(stickerFaces, FlatVerts(stickerFaces, Length(stickerFaces)))

\* the sticker faces of the pieces in the order createPieces makes them: 12
\* centers, the edges, the vertices of three faces
MegaCenterFaces(stickers, fi) == 0 :> [verts |-> stickers[fi].center, faceId |-> fi]

MegaEdgeFaces(stickers, edge, f0, f1) ==
    (0 :> [verts |-> stickers[f0].edges[edge.edgeInFace[f0]], faceId |-> f0])
    @@ (1 :> [verts |-> stickers[f1].edges[edge.edgeInFace[f1]], faceId |-> f1])

MegaCornerFaces(stickers, faces, vi, vfaces) ==
    Tabulated([n \in DOMAIN vfaces |->
        [verts |-> stickers[vfaces[n]].corners[CHOOSE j \in 0..4 : faces[vfaces[n]][j] = vi],
         faceId |-> vfaces[n]]])

MegaStickerFaces(stickers, edges, vertexFaces, faces, three, k) ==
    IF k <= 12 THEN MegaCenterFaces(stickers, k - 1)
    ELSE IF k <= 12 + Length(edges)
    THEN MegaEdgeFaces(stickers, edges[k - 13],
                       edges[k - 13].faces[0], edges[k - 13].faces[1])
    ELSE MegaCornerFaces(stickers, faces, three[k - 13 - Length(edges)],
                         vertexFaces[three[k - 13 - Length(edges)]])

MegaPiecesOfTables(stickers, edges, vertexFaces, faces, three) ==
    [k \in 1..(12 + Length(edges) + Length(three)) |->
        MegaMakePiece(MegaStickerFaces(stickers, edges, vertexFaces, faces, three, k))]

MegaPiecesOfFaces(verts, normals, faces, vertexFaces) ==
    MegaPiecesOfTables(faceStickers(verts, normals, faces), computeEdges(faces),
                       vertexFaces, faces,
                       Ascending({vi \in 0..19 : Length(vertexFaces[vi]) = 3}))

MegaPiecesOf(verts, normals, faces) ==
    MegaPiecesOfFaces(verts, normals, faces, computeVertexFaces(faces))

MegaCreatePieces == MegaPiecesOf(VERTS, NORMALS, FACES)

MegaDefaultConfig == [selectedDepth |-> 1]

MegaOnConfigChange(cfg) == [selectedDepth |-> cfg.selectedDepth, spacing |-> 130]

MegaBaseMoves ==
    [k \in {"u", "b", "r", "l", "f", "d", "n", "j", "h", "g", "s", "a"} |->
        CASE k = "u" -> [face |-> 0, dir |-> 1]
          [] k = "b" -> [face |-> 1, dir |-> 1]
          [] k = "r" -> [face |-> 4, dir |-> 1]
          [] k = "l" -> [face |-> 6, dir |-> 1]
          [] k = "f" -> [face |-> 8, dir |-> 1]
          [] k = "d" -> [face |-> 3, dir |-> 1]
          [] k = "n" -> [face |-> 2, dir |-> 1]
          [] k = "j" -> [face |-> 5, dir |-> 1]
          [] k = "h" -> [face |-> 7, dir |-> 1]
          [] k = "g" -> [face |-> 9, dir |-> 1]
          [] k = "s" -> [face |-> 10, dir |-> 1]
          [] k = "a" -> [face |-> 11, dir |-> 1]]

MegaResolveMove(baseMove, reversed, cfg) ==
    [face |-> baseMove.face,
     axis |-> NORMALS[baseMove.face],
     dir |-> IF reversed THEN -baseMove.dir ELSE baseMove.dir]

\* the stored centroid as numbers of Q(phi)
MegaCentroid(piece) ==
    Tabulated([x \in 0..2 |-> PhiNum(piece.m[x][1], piece.m[x][2], MegaCentroidScale)])

\* d > LAYER_THRESHOLD for the dot product d / _NR with the normalised axis:
\* d / _NR > t  iff  d > 0 and d * d > t * t * _NR * _NR
MegaBeyondThreshold(d) ==
    /\ PhiSign(d) > 0
    /\ PhiLess(PhiMul(PhiMul(LAYER_THRESHOLD, LAYER_THRESHOLD), NR_SQUARED), PhiMul(d, d))

\* the layer test read against the normal of the next face
MegaIsPieceInMoveNextFace(piece, move) ==
    MegaBeyondThreshold(dot3(MegaCentroid(piece), NORMALS[(move.face + 1) % 12]))

\* dot3(piece.m, move.axis) > LAYER_THRESHOLD
MegaIsPieceInMove(piece, move) ==
    MegaBeyondThreshold(dot3(MegaCentroid(piece), move.axis))

\* arithmetic of the stored pairs <<a, b>> = a + b phi
PairAdd(x, y) == <<x[1] + y[1], x[2] + y[2]>>
PairMul(x, y) == <<x[1] * y[1] + x[2] * y[2], x[1] * y[2] + x[2] * y[1] + x[2] * y[2]>>
PairOf(x) == <<x.a, x.b>>

\* math.js rotatePointAroundAxis (Rodrigues) for the axis n/_NR and the angle
\* dir * 72 degrees, v cos + (k x v) sin + k (k.v)(1 - cos) with
\* cos = (phi - 1)/2, sin/_NR = 1/2 and (1 - cos)/(_NR * _NR) = (2 - phi)/2:
\* ((phi - 1) v + dir (n x v) + (2 - phi) n (n.v)) / 2

\* one coordinate: x of v, c1 - c2 of n x v, g of (2 - phi) n (n.v)
RodriguesHalf(x, c1, c2, g, dir) ==
    <<(-x[1] + x[2] + dir * (c1[1] - c2[1]) + g[1]) \div 2,
      (x[1] + dir * (c1[2] - c2[2]) + g[2]) \div 2>>

\* the rotation of w about n, with k = (2 - phi)(n.w)
RodriguesAbout(w, n, k, dir) ==
    (0 :> RodriguesHalf(w[1], PairMul(n[2], w[3]), PairMul(n[3], w[2]), PairMul(n[1], k), dir))
    @@ (1 :> RodriguesHalf(w[2], PairMul(n[3], w[1]), PairMul(n[1], w[3]), PairMul(n[2], k), dir))
    @@ (2 :> RodriguesHalf(w[3], PairMul(n[1], w[2]), PairMul(n[2], w[1]), PairMul(n[3], k), dir))

RodriguesPairs(w, n, dir) ==
    RodriguesAbout(w, n,
        PairMul(<<2, -1>>,
                PairAdd(PairAdd(PairMul(n[1], w[1]), PairMul(n[2], w[2])), PairMul(n[3], w[3]))),
        dir)

MegaRotatePoint(v, axis, dir) ==
    RodriguesPairs(<<v[0], v[1], v[2]>>,
                   <<PairOf(axis[0]), PairOf(axis[1]), PairOf(axis[2])>>, dir)

\* applyRotation with the centroid left where it was
MegaApplyRotationKeepCentroid(ps, move) ==
    [i \in DOMAIN ps |->
        IF ~MegaIsPieceInMove(ps[i], move) THEN ps[i]
        ELSE [ps[i] EXCEPT
                !.p = Tabulated([j \in DOMAIN ps[i].p |->
                          MegaRotatePoint(ps[i].p[j], move.axis, move.dir)])]]

MegaApplyRotation(ps, move) ==
    [i \in DOMAIN ps |->
        IF ~MegaIsPieceInMove(ps[i], move) THEN ps[i]
        ELSE [ps[i] EXCEPT
                !.p = Tabulated([j \in DOMAIN ps[i].p |->
                          MegaRotatePoint(ps[i].p[j], move.axis, move.dir)]),
                !.m = MegaRotatePoint(ps[i].m, move.axis, move.dir)]]

----------------------------------------------------------------------------
(* Puzzle contract dispatch (PuzzleDefinition polymorphism) *)

CreatePieces(pz, cfg) ==
    IF pz = "cube" THEN CubeCreatePieces(cfg)
    ELSE IF pz = "pyraminx" THEN PyraCreatePieces(cfg)
    ELSE MegaCreatePieces

ApplyRotation(pz, ps, move) ==
    IF pz = "cube" THEN CubeApplyRotation(ps, move)
    ELSE IF pz = "pyraminx" THEN PyraApplyRotation(ps, move)
    ELSE MegaApplyRotation(ps, move)

IsPieceInMove(pz, piece, move) ==
    IF pz = "cube" THEN DefaultIsPieceInMove(piece, move)
    ELSE IF pz = "pyraminx" THEN PyraIsPieceInMove(piece, move)
    ELSE MegaIsPieceInMove(piece, move)

OnConfigChange(pz, cfg) ==
    IF pz = "cube" THEN CubeOnConfigChange(cfg)
    ELSE IF pz = "pyraminx" THEN PyraOnConfigChange(cfg)
    ELSE MegaOnConfigChange(cfg)

DefaultConfig(pz) ==
    IF pz = "cube" THEN CubeDefaultConfig
    ELSE IF pz = "pyraminx" THEN PyraDefaultConfig
    ELSE MegaDefaultConfig

BaseMoves(pz) ==
    IF pz = "cube" THEN CubeBaseMoves
    ELSE IF pz = "pyraminx" THEN PyraBaseMoves
    ELSE MegaBaseMoves

ResolveMove(pz, bm, reversed, cfg) ==
    IF pz = "cube" THEN CubeResolveMove(bm, reversed, cfg)
    ELSE IF pz = "pyraminx" THEN PyraResolveMove(bm, reversed, cfg)
    ELSE MegaResolveMove(bm, reversed, cfg)

----------------------------------------------------------------------------
(* AnimationQueue.js *)

\* progress values are exact fractions num/den
ZeroProgress == [num |-> 0, den |-> 1]
OneProgress == [num |-> 1, den |-> 1]

\* progress = (time - this.moveStart) / this.moveDuration
UpdateProgress(t, start, dur) == [num |-> t - start, den |-> dur]

\* variants of ProgressDone: progress >= 0.5, and progress == 1
ProgressDoneEarly(pr) == 2 * pr.num >= pr.den
ProgressExactlyOne(pr) == pr.num = pr.den

\* progress >= 1
ProgressDone(pr) == pr.num >= pr.den

\* Math.min(progress, 1)
ClampProgress(pr) == IF pr.num > pr.den THEN OneProgress ELSE pr

\* variant of QueueShift: this.queue.pop()
QueuePop(q) == [item |-> q[Len(q)], rest |-> SubSeq(q, 1, Len(q) - 1)]

\* this.queue.shift()
QueueShift(q) == [item |-> Head(q), rest |-> Tail(q)]

\* variant of AfterCommit: this.current is not reset
AfterCommitKept(cur) == cur

\* this.current after the commit branch
AfterCommit(cur) == NoMove

\* the move handed to puzzle.applyRotation by the commit branch
CommitPieces(pz, ps, cur) == ApplyRotation(pz, ps, cur.move)

\* variant of CommitProgress: progress is not reset
CommitProgressKept(pr) == pr

\* progress after the commit branch
CommitProgress(pr) == ZeroProgress

\* variant of MoveStartAtBegin: the next move starts where the last one ended
MoveStartCarried(t, start, dur) == start + dur

\* this.moveStart = time, when the next queued move begins
MoveStartAtBegin(t, start, dur) == t

\* AnimationQueue.update(time, puzzle, pieces)
AnimUpdate(t, pz, ps, q, cur, start, dur) ==
    LET pr0 == IF cur # NoMove THEN UpdateProgress(t, start, dur) ELSE ZeroProgress
        commit == cur # NoMove /\ ProgressDone(pr0)
        cur1 == IF commit THEN AfterCommit(cur) ELSE cur
        pr1 == IF commit THEN CommitProgress(pr0) ELSE pr0
        begin == cur1 = NoMove /\ Len(q) > 0
        sh == QueueShift(q)
        cur2 == IF begin THEN sh.item ELSE cur1
    IN [pieces |-> IF commit THEN CommitPieces(pz, ps, cur) ELSE ps,
        queue |-> IF begin THEN sh.rest ELSE q,
        current |-> cur2,
        moveStart |-> IF begin THEN MoveStartAtBegin(t, start, dur) ELSE start,
        commit |-> commit,
        ret |-> [current |-> cur2,
                 progress |-> ClampProgress(IF begin THEN ZeroProgress ELSE pr1)]]

\* variant of AnimClear: only the queue is emptied
AnimClearQueueOnly(q, cur) == [queue |-> <<>>, current |-> cur]

\* AnimationQueue.clear()
AnimClear(q, cur) == [queue |-> <<>>, current |-> NoMove]

\* AnimationQueue.isAnimating
IsAnimating == current # NoMove \/ Len(queue) > 0

----------------------------------------------------------------------------
(* generateScramble: the Math.random() draws are the input.  A seed fixes   *)
(* the draws of one call: first axis (vertex), the step to the next one,    *)
(* the first layer index (depth) and the first direction.                   *)

ScrambleSeeds == {<<a, st, l, d>> : a \in {0}, st \in {1, 2}, l \in {0}, d \in {1}}

CubeGenerateScramble(cfg, seed) ==
    [i \in 1..(cfg.N * 7) |->
        [axis |-> (seed[1] + (i - 1) * seed[2]) % 3,
         layer |-> CubeScale * ((seed[3] + (i - 1)) % cfg.N) - cfg.half,
         dir |-> IF i % 2 = 1 THEN seed[4] ELSE -seed[4]]]

PyraGenerateScramble(cfg, seed) ==
    [i \in 1..(cfg.N * 10) |->
        LET vertex == (seed[1] + (i - 1) * seed[2]) % 4
        IN [vertex |-> vertex,
            axis |-> AXES[vertex],
            depth |-> (seed[3] + (i - 1)) % (cfg.N - 1),
            dir |-> IF i % 2 = 1 THEN seed[4] ELSE -seed[4]]]

\* 60 moves; a face is drawn again while it equals the last one, so two
\* consecutive faces differ
MegaGenerateScramble(cfg, seed) ==
    [i \in 1..60 |->
        LET face == (seed[1] + (i - 1) * seed[2]) % 12
        IN [face |-> face,
            axis |-> NORMALS[face],
            dir |-> IF i % 2 = 1 THEN seed[4] ELSE -seed[4]]]

GenerateScramble(pz, cfg, seed) ==
    IF pz = "cube" THEN CubeGenerateScramble(cfg, seed)
    ELSE IF pz = "pyraminx" THEN PyraGenerateScramble(cfg, seed)
    ELSE MegaGenerateScramble(cfg, seed)

----------------------------------------------------------------------------
(* PuzzleEngine.js / InputManager.js *)

NoRun == [none |-> TRUE]

\* keys explored per puzzle
FaceKeys(pz) == IF pz = "cube" THEN {"u", "r"} ELSE {"i"}

\* loadPuzzle(puzzle) with the default config, then a size chosen in the config UI
EngineConfigs ==
    {[pz |-> "cube", N |-> 2], [pz |-> "pyraminx", N |-> 2]}

\* (the megaminx has no size: its configParams are empty and N is not read)
LoadedConfig(pz, N) ==
    IF pz = "megaminx"
    THEN [OnConfigChange(pz, DefaultConfig(pz)) EXCEPT !.selectedDepth = 1]
    ELSE [OnConfigChange(pz, [DefaultConfig(pz) EXCEPT !.N = N]) EXCEPT !.selectedDepth = 1]

\* the engine after loadPuzzle: everything but the bookkeeping variable run
EngineLoaded(c) ==
    /\ puzzle = c.pz
    /\ config = LoadedConfig(c.pz, c.N)
    /\ pieces = CreatePieces(c.pz, LoadedConfig(c.pz, c.N))
    /\ queue = <<>>
    /\ current = NoMove
    /\ moveStart = 0
    /\ moveDuration = 300
    /\ time = 0
    /\ ret = [current |-> NoMove, progress |-> ZeroProgress]
    /\ selectedDepth = 1
    /\ selected = NoSelection
    /\ enqueued = 0
    /\ committed = <<>>
    /\ history = <<>>

EngineInit(c) == EngineLoaded(c) /\ run = NoRun

Init == \E c \in EngineConfigs : EngineInit(c)

\* AnimationQueue.queueMove(move): the pushed object is identified by its push number
Pushed(q, n, moves) == q \o [i \in 1..Len(moves) |-> [id |-> n + i, move |-> moves[i]]]

\* _onKeyDown, face key: config.selectedDepth = this.selectedDepth; resolveMove; queueMove
PressFace(key, shift) ==
    /\ key \in FaceKeys(puzzle)
    /\ LET cfg == [config EXCEPT !.selectedDepth = selectedDepth]
           move == ResolveMove(puzzle, BaseMoves(puzzle)[key], shift, cfg)
       IN /\ config' = cfg
          /\ queue' = Pushed(queue, enqueued, <<move>>)
          /\ history' = Append(history, move)
    /\ enqueued' = enqueued + 1
    /\ UNCHANGED <<puzzle, pieces, current, moveStart, moveDuration, time, ret,
                   selectedDepth, committed, run, selected>>

KeyFace(key, shift) == enqueued < MaxEnqueued /\ PressFace(key, shift)

\* _onKeyDown, space: engine.scramble()
KeyScramble(seed) ==
    /\ enqueued = 0
    /\ LET moves == GenerateScramble(puzzle, config, seed)
       IN /\ queue' = Pushed(queue, enqueued, moves)
          /\ history' = history \o moves
          /\ enqueued' = enqueued + Len(moves)
    /\ UNCHANGED <<puzzle, config, pieces, current, moveStart, moveDuration, time, ret,
                   selectedDepth, committed, run, selected>>

sliderToSpeed(v) == SPEED_MIN + SPEED_MAX - v

\* slider positions explored: 750 is the initial 300 ms, 950 is 100 ms
SliderValues == {750, 950}

\* speed slider 'input' handler: setSpeed(sliderToSpeed(Number(speedSlider.value)))
SpeedSlider(v) ==
    /\ moveDuration' = sliderToSpeed(v)
    /\ UNCHANGED <<puzzle, config, pieces, queue, current, moveStart, time, ret,
                   selectedDepth, enqueued, committed, history, run, selected>>

\* _onKeyDown, Escape: engine.reset()
KeyEscape ==
    /\ queue' = AnimClear(queue, current).queue
    /\ current' = AnimClear(queue, current).current
    /\ pieces' = CreatePieces(puzzle, config)
    /\ selected' = NoSelection
    /\ history' = <<>>
    /\ UNCHANGED <<puzzle, config, moveStart, moveDuration, time, ret, selectedDepth,
                   enqueued, committed, run>>

\* AnimationQueue.clear() on its own
Clear ==
    /\ queue' = AnimClear(queue, current).queue
    /\ current' = AnimClear(queue, current).current
    /\ UNCHANGED <<puzzle, config, pieces, moveStart, moveDuration, time, ret,
                   selectedDepth, enqueued, committed, history, run, selected>>

\* PuzzleEngine._frame(time): animation.update, then the two renderers, which
\* only read the piece store
Updated(u) ==
    /\ pieces' = u.pieces
    /\ queue' = u.queue
    /\ current' = u.current
    /\ moveStart' = u.moveStart
    /\ ret' = u.ret
    /\ committed' = IF u.commit THEN Append(committed, current.id) ELSE committed

Tick(t) ==
    /\ Updated(AnimUpdate(t, puzzle, pieces, queue, current, moveStart, moveDuration))
    /\ time' = t
    /\ UNCHANGED <<puzzle, config, moveDuration, selectedDepth, enqueued, history, run, selected>>

Frame(t) == t <= MaxTime /\ Tick(t)

FrameGaps == {g * FrameGrain : g \in 0..MaxGap}

Next ==
    \/ \E key \in {"u", "r", "i"}, shift \in BOOLEAN : KeyFace(key, shift)
    \/ \E seed \in ScrambleSeeds : KeyScramble(seed)
    \/ \E v \in SliderValues : SpeedSlider(v)
    \/ KeyEscape
    \/ Clear
    \/ \E g \in FrameGaps : Frame(time + g)

Spec == Init /\ [][Next]_vars

----------------------------------------------------------------------------
(* The engine without cancellation: face keys, speed slider and frames     *)
(* only.  requestAnimationFrame re-arms itself in every frame, so frames   *)
(* with a later timestamp keep coming: weak fairness of AdvancingFrame.    *)
(* Timestamps stop at MaxRunTime, so an input is taken only while the time *)
(* left covers the worst-case animation of everything pending.             *)

GapMs == MaxGap * FrameGrain

PendingCount == Len(queue) + (IF current # NoMove THEN 1 ELSE 0)

Budget(k, d) == time + GapMs + k * (d + GapMs) <= MaxRunTime

RunKeyFace(key, shift) ==
    /\ enqueued < MaxEnqueued
    /\ Budget(PendingCount + 1, moveDuration)
    /\ PressFace(key, shift)

RunSpeedSlider(v) == Budget(PendingCount, sliderToSpeed(v)) /\ SpeedSlider(v)

RunFrame(t) == t <= MaxRunTime /\ Tick(t)

AdvancingFrame == \E g \in FrameGaps \ {0} : RunFrame(time + g)

RunNext ==
    \/ \E key \in {"u", "r", "i"}, shift \in BOOLEAN : RunKeyFace(key, shift)
    \/ \E v \in SliderValues : RunSpeedSlider(v)
    \/ \E g \in FrameGaps : RunFrame(time + g)

SpecRun == Init /\ [][RunNext]_vars /\ WF_vars(AdvancingFrame)

----------------------------------------------------------------------------
(* Claims about the animation queue *)

PendingIds ==
    (IF current # NoMove THEN <<current.id>> ELSE <<>>) \o [i \in 1..Len(queue) |-> queue[i].id]

InSeq(x, sq) == \E k \in 1..Len(sq) : sq[k] = x

\* C1: at most one move is in flight, and the moves are committed in the order
\* queueMove received them, each at most once: the committed ids followed by the
\* in-flight id and the queued ids are strictly increasing, and what is pending
\* is exactly the latest pushes.
C1_SerialFifo ==
    LET ord == committed \o PendingIds
    IN /\ current # NoMove => current.id \in 1..enqueued
       /\ \A i \in 1..Len(ord) : \A j \in 1..Len(ord) : i < j => ord[i] < ord[j]
       /\ \A i \in 1..Len(PendingIds) : PendingIds[i] = enqueued - Len(PendingIds) + i

C1_Witness ==
    /\ committed = <<1, 2>>
    /\ Len(history) = 2
    /\ history[1] # history[2]

Cancelled(i) == ~InSeq(i, PendingIds) /\ ~InSeq(i, committed)

\* C2: clear() and reset() leave the queue empty and nothing in flight, commit
\* nothing, clear() leaves the piece store as it was, and a move they discarded
\* is never committed afterwards.
C2_CancelWithoutCommit ==
    [][/\ (Clear \/ KeyEscape) =>
            /\ queue' = <<>>
            /\ current' = NoMove
            /\ committed' = committed
       /\ Clear => pieces' = pieces
       /\ \A i \in 1..enqueued : Cancelled(i) => Cancelled(i)']_vars

C2_Witness ==
    \E i \in 1..enqueued : \E j \in 1..enqueued :
        /\ i < j
        /\ Cancelled(i)
        /\ InSeq(j, committed)

RECURSIVE ApplyAll(_, _, _)
ApplyAll(pz, ps, moves) ==
    IF moves = <<>> THEN ps
    ELSE ApplyAll(pz, ApplyRotation(pz, ps, Head(moves)), Tail(moves))

\* C4: once the queue has drained, the piece store is the initial store with the
\* enqueued moves applied in order, whatever the frame timestamps and the speed
\* changes were; two runs with the same moves therefore end in the same store.
C4_TimingIndependence ==
    ~IsAnimating => pieces = ApplyAll(puzzle, CreatePieces(puzzle, config), history)

C4_Witness ==
    /\ ~IsAnimating
    /\ Len(history) = 2
    /\ puzzle = "cube"
    /\ history[1].axis # history[2].axis
    /\ moveDuration # 300
    /\ time - moveStart > moveDuration

\* C5: with frames that keep advancing and no cancellation, every enqueued move
\* is eventually committed and the queue returns to Idle.
C5_EveryMoveCommits ==
    /\ \A i \in 1..MaxEnqueued : (enqueued >= i) ~> InSeq(i, committed)
    /\ IsAnimating ~> ~IsAnimating

C5_Witness ==
    /\ ~IsAnimating
    /\ committed = <<1, 2>>

InUnitInterval(pr) == pr.den > 0 /\ 0 <= pr.num /\ pr.num <= pr.den

\* C6: every update returns a progress in [0,1], returns 0 when it commits or
\* starts a move, and returns current = null exactly when it ends Idle.
C6_UpdateResult ==
    [][(\E g \in FrameGaps : Frame(time + g)) =>
            /\ InUnitInterval(ret'.progress)
            /\ (committed' # committed \/ (current' # NoMove /\ current' # current))
                    => ret'.progress.num = 0
            /\ (ret'.current = NoMove) <=> (current' = NoMove)]_vars

C6_Witness ==
    /\ Len(committed) >= 1
    /\ current = NoMove
    /\ ret.current = NoMove
    /\ ret.progress.num = 0
    /\ time - moveStart >= 2 * moveDuration

----------------------------------------------------------------------------
(* The rotation algebra on its own: puzzle.applyRotation(pieces, move) is   *)
(* called directly, as update does when a move commits.  A behaviour first  *)
(* applies up to MaxApplied moves of a scramble and then a series of calls  *)
(* with one and the same move; run records the series.                      *)

CubeMoves(cfg) ==
    {[axis |-> a, layer |-> CubeScale * li - cfg.half, dir |-> d] :
        a \in 0..2, li \in 0..(cfg.N - 1), d \in {1, -1}}

PyraMoves(cfg) ==
    {[vertex |-> v, axis |-> AXES[v], depth |-> dp, dir |-> d] :
        v \in 0..3, dp \in 0..(cfg.N - 1), d \in {1, -1}}

MegaMoves == {[face |-> f, axis |-> NORMALS[f], dir |-> d] : f \in 0..11, d \in {1, -1}}

Moves(pz, cfg) ==
    IF pz = "cube" THEN CubeMoves(cfg)
    ELSE IF pz = "pyraminx" THEN PyraMoves(cfg)
    ELSE MegaMoves

\* indices of the pieces a call of applyRotation rotates
Selected(pz, ps, move) ==
    {i \in DOMAIN ps :
        IF pz = "cube" THEN ~CubeSkipped(ps[i], move)
        ELSE IF pz = "pyraminx" THEN PyraIsPieceInMove(ps[i], move)
        ELSE MegaIsPieceInMove(ps[i], move)}

\* what a series of identical calls is compared on: the cube's and the
\* megaminx' whole pieces, the pyraminx' barycentric vectors
Snapshot(pz, ps) ==
    IF pz = "pyraminx" THEN [i \in DOMAIN ps |-> ps[i].bary] ELSE ps

AlgebraInit(pz, cfg) ==
    /\ puzzle = pz
    /\ config = cfg
    /\ pieces = CreatePieces(pz, cfg)
    /\ queue = <<>>
    /\ current = NoMove
    /\ moveStart = 0
    /\ moveDuration = 300
    /\ time = 0
    /\ ret = [current |-> NoMove, progress |-> ZeroProgress]
    /\ selectedDepth = 1
    /\ selected = NoSelection
    /\ enqueued = 0
    /\ committed = <<>>
    /\ history = <<>>
    /\ run = [move |-> NoMove, count |-> 0, pre |-> Snapshot(pz, CreatePieces(pz, cfg)),
              sel |-> {}, same |-> TRUE, applied |-> 0]

\* the next move of a generated scramble, applied before the series starts
ScrambleStep(seed) ==
    /\ run.count = 0
    /\ run.applied < MaxApplied
    /\ pieces' = ApplyRotation(puzzle, pieces,
                               GenerateScramble(puzzle, config, seed)[run.applied + 1])
    /\ run' = [run EXCEPT !.applied = @ + 1]
    /\ UNCHANGED <<puzzle, config, queue, current, moveStart, moveDuration, time, ret,
                   selectedDepth, selected, enqueued, committed, history>>

\* one call of a series of at most limit calls: the first fixes the move, the
\* later ones repeat it
ApplyInSeries(move, limit) ==
    /\ run.count = 0 \/ (move = run.move /\ run.count < limit)
    /\ pieces' = ApplyRotation(puzzle, pieces, move)
    /\ run' = IF run.count = 0
              THEN [run EXCEPT !.move = move, !.count = 1, !.pre = Snapshot(puzzle, pieces),
                               !.sel = Selected(puzzle, pieces, move)]
              ELSE [run EXCEPT !.count = @ + 1,
                               !.same = @ /\ Selected(puzzle, pieces, move) = run.sel]
    /\ UNCHANGED <<puzzle, config, queue, current, moveStart, moveDuration, time, ret,
                   selectedDepth, selected, enqueued, committed, history>>

ApplyMove(move) == ApplyInSeries(move, MaxRun)

AlgebraNext ==
    \/ \E seed \in ScrambleSeeds : ScrambleStep(seed)
    \/ \E move \in Moves(puzzle, config) : ApplyMove(move)

\* cube sizes 1..MaxCubeN with every border width the config UI lets through
CubeInit ==
    \E N \in 1..MaxCubeN : \E bw \in 1..CeilHalf(N) :
        AlgebraInit("cube", CubeOnConfigChange([CubeDefaultConfig EXCEPT !.N = N,
                                                                         !.borderWidth = bw]))

SpecCube == CubeInit /\ [][AlgebraNext]_vars

PyraInit ==
    \E N \in 2..MaxPyraN :
        AlgebraInit("pyraminx", PyraOnConfigChange([PyraDefaultConfig EXCEPT !.N = N]))

SpecPyra == PyraInit /\ [][AlgebraNext]_vars

\* the megaminx has one configuration; a series runs one call longer, past
\* the five calls of a full turn when MaxRun is 4
MegaInit == AlgebraInit("megaminx", MegaOnConfigChange(MegaDefaultConfig))

MegaNext ==
    \/ \E seed \in ScrambleSeeds : ScrambleStep(seed)
    \/ \E move \in Moves(puzzle, config) : ApplyInSeries(move, MaxRun + 1)

SpecMega == MegaInit /\ [][MegaNext]_vars

----------------------------------------------------------------------------
(* Pyraminx: index permutation against geometry *)

UnitBary(j) == [k \in 0..3 |-> IF k = j THEN 1 ELSE 0]

\* the index permutation of applyRotation sends component j to component k
\* exactly when the rotation of the geometry sends parent vertex j to k
PermutationAgrees(vertex, dir) ==
    \A j \in 0..3 : \A k \in 0..3 :
        PyraCycleBary(UnitBary(j), vertex, dir)[k] = 1
            => RotatePointAroundAxis(PARENT_VERTS[j], AXES[vertex], dir) = PARENT_VERTS[k]

\* bary is the lattice coordinate vector of the centroid: with
\* m = PyraScale * sum_k bary[k] V_k and V_j.V_k = 3 or -1,
\* V_k.m = PyraScale * (4 bary[k] - barySum)
BaryOfCentroid(piece) ==
    \A k \in 0..3 :
        4 * PyraScale * piece.bary[k]
            = Dot(PARENT_VERTS[k], piece.m) + PyraScale * piece.barySum

\* the layer test evaluated on the centroid instead of on bary
GeometricInMove(piece, move) ==
    Dot(PARENT_VERTS[move.vertex], piece.m)
        >= PyraScale * (3 * piece.barySum + (IF piece.isGap THEN 4 ELSE 0) - 4 * move.depth)

\* C7: the bary permutation of applyRotation moves the integer coordinates
\* exactly as the 120-degree rotation moves the lattice sites, so that every
\* piece's bary stays the lattice coordinate of its centroid and isPieceInMove
\* selects exactly the pieces that lie in the turning layer.
C7_Lockstep ==
    puzzle = "pyraminx" =>
        /\ run.move # NoMove => PermutationAgrees(run.move.vertex, run.move.dir)
        /\ \A i \in DOMAIN pieces : BaryOfCentroid(pieces[i])
        /\ \A i \in DOMAIN pieces : \A move \in PyraMoves(config) :
               PyraIsPieceInMove(pieces[i], move) <=> GeometricInMove(pieces[i], move)

----------------------------------------------------------------------------
(* Cube: a quarter turn has order four *)

\* C8: four applications of one cube move (any N, axis, layer, dir) bring every
\* piece's m and p back to the values before the first, and each of the
\* applications selects the same set of pieces.
C8_CubeOrderFour ==
    puzzle = "cube" =>
        /\ run.count >= 1 => run.same
        /\ run.count = 4 => Snapshot(puzzle, pieces) = run.pre

C8_Witness ==
    /\ puzzle = "cube"
    /\ config.N = 3
    /\ run.count = 4
    /\ run.move.layer = 0
    /\ run.sel # {}
    /\ run.applied >= 2
    /\ run.pre # CreatePieces(puzzle, config)
    /\ pieces = run.pre

----------------------------------------------------------------------------
(* Pyraminx: a vertex turn has order three on bary *)

\* C9: three applications of one pyraminx move (any vertex, depth, dir) bring
\* every piece's bary back to the value before the first, each application
\* selects the same set of pieces, and no application changes a piece's
\* bary[vertex].  (run'.count >= 1 holds exactly after the calls of a series.)
C9_PyraOrderThree ==
    [][(puzzle = "pyraminx" /\ run'.count >= 1) =>
          /\ run'.same
          /\ run'.count = 3 => Snapshot(puzzle, pieces') = run'.pre
          /\ \A i \in DOMAIN pieces :
                 pieces'[i].bary[run'.move.vertex] = pieces[i].bary[run'.move.vertex]]_vars

C9_Witness ==
    /\ puzzle = "pyraminx"
    /\ config.N = 3
    /\ run.count = 3
    /\ run.move.depth = 1
    /\ run.pre # Snapshot(puzzle, CreatePieces(puzzle, config))
    /\ Snapshot(puzzle, pieces) = run.pre
    /\ \E i \in run.sel : \E j \in 0..3 : \E k \in 0..3 :
           j # run.move.vertex /\ k # run.move.vertex /\ run.pre[i][j] # run.pre[i][k]

----------------------------------------------------------------------------
(* Pyraminx: the barycentric invariant *)

BarySumOf(piece) == piece.bary[0] + piece.bary[1] + piece.bary[2] + piece.bary[3]

\* C10: in every reachable state each pyraminx piece's bary is four
\* non-negative integers whose sum is its barySum (N-1 upright, N-2 gap),
\* barySum and isGap are as created, and no two pieces of one class have the
\* same bary.
C10_BaryInvariant ==
    puzzle = "pyraminx" =>
        LET created == CreatePieces(puzzle, config)
        IN /\ DOMAIN pieces = DOMAIN created
           /\ \A i \in DOMAIN pieces :
                  /\ \A k \in 0..3 : pieces[i].bary[k] \in Nat
                  /\ BarySumOf(pieces[i]) = pieces[i].barySum
                  /\ pieces[i].barySum = config.N - (IF pieces[i].isGap THEN 2 ELSE 1)
                  /\ pieces[i].barySum = created[i].barySum
                  /\ pieces[i].isGap = created[i].isGap
           /\ \A i \in DOMAIN pieces : \A j \in DOMAIN pieces :
                  (i # j /\ pieces[i].isGap = pieces[j].isGap)
                      => pieces[i].bary # pieces[j].bary

C10_Witness ==
    /\ puzzle = "pyraminx"
    /\ config.N = 3
    /\ run.applied >= 2
    /\ run.count >= 1
    /\ \E i \in DOMAIN pieces : \E j \in DOMAIN pieces :
           /\ ~pieces[i].isGap /\ pieces[j].isGap
           /\ pieces[i].bary # CreatePieces(puzzle, config)[i].bary
           /\ pieces[j].bary # CreatePieces(puzzle, config)[j].bary

----------------------------------------------------------------------------
(* A move sequence followed by its inverse.  Moves are committed by direct  *)
(* applyRotation calls; history holds the moves not yet undone, run is      *)
(* NoRun until the first inverse move is committed.                         *)

\* puzzles and sizes on which sequences are undone
UndoConfigs ==
    {[pz |-> "cube", N |-> 2], [pz |-> "cube", N |-> 3],
     [pz |-> "pyraminx", N |-> 2], [pz |-> "pyraminx", N |-> 3]}

UndoInit == \E c \in UndoConfigs : EngineInit(c)

\* the same layer turned the other way
InverseMove(move) == [move EXCEPT !.dir = -move.dir]

\* commit of one more move of the sequence
DoMove(move) ==
    /\ run = NoRun
    /\ Len(history) < MaxUndo
    /\ pieces' = ApplyRotation(puzzle, pieces, move)
    /\ history' = Append(history, move)
    /\ UNCHANGED <<puzzle, config, queue, current, moveStart, moveDuration, time, ret,
                   selectedDepth, enqueued, committed, run, selected>>

\* commit of a whole generateScramble output on the solved store
DoScramble(seed) ==
    /\ run = NoRun
    /\ history = <<>>
    /\ pieces' = ApplyAll(puzzle, pieces, GenerateScramble(puzzle, config, seed))
    /\ history' = GenerateScramble(puzzle, config, seed)
    /\ UNCHANGED <<puzzle, config, queue, current, moveStart, moveDuration, time, ret,
                   selectedDepth, enqueued, committed, run, selected>>

\* commit of the inverse of the last move not yet undone
UndoMove ==
    /\ history # <<>>
    /\ pieces' = ApplyRotation(puzzle, pieces, InverseMove(history[Len(history)]))
    /\ history' = SubSeq(history, 1, Len(history) - 1)
    /\ run' = IF run = NoRun
              THEN [undone |-> 1, scrambled |-> pieces # CreatePieces(puzzle, config)]
              ELSE [run EXCEPT !.undone = @ + 1]
    /\ UNCHANGED <<puzzle, config, queue, current, moveStart, moveDuration, time, ret,
                   selectedDepth, selected, enqueued, committed>>

UndoNext ==
    \/ \E move \in Moves(puzzle, config) : DoMove(move)
    \/ \E seed \in ScrambleSeeds : DoScramble(seed)
    \/ UndoMove

SpecUndo == UndoInit /\ [][UndoNext]_vars

\* C11: a move sequence committed on the solved store (free moves, or a whole
\* generateScramble output) followed by its inverse sequence (reversed order,
\* each dir negated) leaves every piece as created: position, vertices,
\* barycentric data and stickers.
C11_ScrambleUndo ==
    (run # NoRun /\ history = <<>>) => pieces = CreatePieces(puzzle, config)

C11_Witness ==
    /\ run # NoRun
    /\ history = <<>>
    /\ run.undone > MaxUndo
    /\ run.scrambled
    /\ puzzle = "pyraminx"
    /\ pieces = CreatePieces(puzzle, config)

----------------------------------------------------------------------------
(* CubePuzzle.getStickerColor / detectWorldFace *)

FACE_INFO == [f \in 0..5 |-> [axis |-> CUBE_FACE_DEFS[f].axis, dir |-> CUBE_FACE_DEFS[f].dir]]

\* null
NullColor == -1

\* the three bits of a corner index: floor(i/4), floor((i%4)/2), i%2
CornerBit(i, k) ==
    CASE k = 0 -> i \div 4
      [] k = 1 -> (i % 4) \div 2
      [] k = 2 -> i % 2

\* |m[faceAxis] - faceDir * half| > 0.01 is false
CubeOnFace(piece, faceIndex, cfg) ==
    Abs(piece.m[FACE_INFO[faceIndex].axis] - FACE_INFO[faceIndex].dir * cfg.half) <= 1

\* Math.max / Math.min over the faceAxis coordinate of the 8 vertices
CubeExtreme(piece, faceIndex) ==
    LET ax == FACE_INFO[faceIndex].axis
        vals == {piece.p[i][ax] : i \in 0..7}
    IN IF FACE_INFO[faceIndex].dir > 0
       THEN CHOOSE x \in vals : \A y \in vals : y <= x
       ELSE CHOOSE x \in vals : \A y \in vals : y >= x

\* faceVerts with the tolerance 1.0 in place of 0.1
CubeFaceVertsLoose(piece, faceIndex) ==
    LET extreme == CubeExtreme(piece, faceIndex)
    IN {i \in 0..7 : Abs(piece.p[i][FACE_INFO[faceIndex].axis] - extreme) < CubeScale}

\* faceVerts: the vertices within 0.1 of the extreme
CubeFaceVerts(piece, faceIndex) ==
    LET extreme == CubeExtreme(piece, faceIndex)
    IN {i \in 0..7 : Abs(piece.p[i][FACE_INFO[faceIndex].axis] - extreme) < 10}

CubeSplitUniform(fv, k) == \A i \in fv : \A j \in fv : CornerBit(i, k) = CornerBit(j, k)

\* the bit the vertices of a uniform split share
CubeSplitBit(fv, k) == CornerBit(CHOOSE i \in fv : TRUE, k)

\* getStickerColor reaches one of its two `return faceIndex` statements
CubeColorFallback(piece, faceIndex, cfg) ==
    /\ faceIndex \in 0..5
    /\ CubeOnFace(piece, faceIndex, cfg)
    /\ LET fv == CubeFaceVerts(piece, faceIndex)
       IN \/ Cardinality(fv) # 4
          \/ \A k \in 0..2 : ~CubeSplitUniform(fv, k)

CubeGetStickerColor(piece, faceIndex, cfg) ==
    IF faceIndex < 0 \/ faceIndex > 5 THEN NullColor
    ELSE IF ~CubeOnFace(piece, faceIndex, cfg) THEN NullColor
    ELSE LET fv == CubeFaceVerts(piece, faceIndex)
         IN IF Cardinality(fv) # 4 THEN faceIndex
            ELSE IF CubeSplitUniform(fv, 0) THEN (IF CubeSplitBit(fv, 0) = 1 THEN 3 ELSE 2)
            ELSE IF CubeSplitUniform(fv, 1) THEN (IF CubeSplitBit(fv, 1) = 1 THEN 1 ELSE 0)
            ELSE IF CubeSplitUniform(fv, 2) THEN (IF CubeSplitBit(fv, 2) = 1 THEN 4 ELSE 5)
            ELSE faceIndex

\* detectWorldFace with the side test reversed
CubeDetectWorldFaceReversed(piece, faceVerts) ==
    LET flat(ax) == \A k \in 1..Len(faceVerts) : Abs(faceVerts[k][ax] - faceVerts[1][ax]) < 1
        side(ax) == faceColorIndex(ax, IF faceVerts[1][ax] > piece.m[ax] THEN -1 ELSE 1)
    IN IF flat(0) THEN side(0)
       ELSE IF flat(1) THEN side(1)
       ELSE IF flat(2) THEN side(2)
       ELSE -1

\* detectWorldFace(piece, faceVerts): faceVerts are the slot's four vertices
CubeDetectWorldFace(piece, faceVerts) ==
    LET flat(ax) == \A k \in 1..Len(faceVerts) : Abs(faceVerts[k][ax] - faceVerts[1][ax]) < 1
        side(ax) == faceColorIndex(ax, IF faceVerts[1][ax] > piece.m[ax] THEN 1 ELSE -1)
    IN IF flat(0) THEN side(0)
       ELSE IF flat(1) THEN side(1)
       ELSE IF flat(2) THEN side(2)
       ELSE -1

\* the vertices of face slot defIdx: def.idx.map(i => piece.p[i])
CubeSlotVerts(piece, defIdx) ==
    [k \in 1..4 |-> piece.p[CUBE_FACE_DEFS[defIdx].idx[k]]]

----------------------------------------------------------------------------
(* One face key on the solved 3x3x3 cube, queued and animated to its commit *)

KeysInit == EngineInit([pz |-> "cube", N |-> 3])

\* _onKeyDown, face key, for any of the puzzle's base moves; at most one press
PressOnce(key, shift) ==
    /\ enqueued = 0
    /\ key \in DOMAIN BaseMoves(puzzle)
    /\ LET cfg == [config EXCEPT !.selectedDepth = selectedDepth]
           move == ResolveMove(puzzle, BaseMoves(puzzle)[key], shift, cfg)
       IN /\ config' = cfg
          /\ queue' = Pushed(queue, enqueued, <<move>>)
          /\ history' = Append(history, move)
    /\ enqueued' = enqueued + 1
    /\ UNCHANGED <<puzzle, pieces, current, moveStart, moveDuration, time, ret,
                   selectedDepth, committed, run, selected>>

KeysNext ==
    \/ \E key \in DOMAIN CubeBaseMoves, shift \in BOOLEAN : PressOnce(key, shift)
    \/ \E g \in FrameGaps : Frame(time + g)

SpecKeys == KeysInit /\ [][KeysNext]_vars

\* the queue has drained after the one press of key (with or without Shift)
DrainedAfter(key, shift) ==
    /\ history = <<ResolveMove(puzzle, BaseMoves(puzzle)[key], shift, config)>>
    /\ committed = <<1>>
    /\ ~IsAnimating

SideFaces == {2, 3, 4, 5}

\* piece lies in the top layer (Y-)
InTopLayer(piece) == CubeOnFace(piece, 0, config)

\* the pieces whose sticker lies in the top row of side face f
TopRow(f) == {i \in DOMAIN pieces : InTopLayer(pieces[i]) /\ CubeOnFace(pieces[i], f, config)}

\* c maps each side face to a neighbouring side face, in one cycle of length 4
SingleFourCycle(c) ==
    \A f \in SideFaces :
        /\ FACE_INFO[c[f]].axis # FACE_INFO[f].axis
        /\ c[c[f]] # f
        /\ c[c[c[c[f]]]] = f

\* C12: after one 'u' key move on the solved 3x3x3 cube has been queued and
\* the queue has drained, the 9 stickers of the top face report the top colour,
\* the top row of each side face reports the colour of one neighbouring side
\* face, these four colours following a single 4-cycle of the side faces, and
\* every other sticker reports what it reports on the solved cube.
C12_UScenario ==
    DrainedAfter("u", FALSE) =>
        /\ Cardinality({i \in DOMAIN pieces : InTopLayer(pieces[i])}) = 9
        /\ \A f \in SideFaces : Cardinality(TopRow(f)) = 3
        /\ \E c \in [SideFaces -> SideFaces] :
              /\ SingleFourCycle(c)
              /\ \A f \in SideFaces : \A i \in TopRow(f) :
                     CubeGetStickerColor(pieces[i], f, config) = c[f]
        /\ \A i \in DOMAIN pieces : \A f \in 0..5 :
              (f \in SideFaces /\ i \in TopRow(f))
              \/ CubeGetStickerColor(pieces[i], f, config)
                     = (IF CubeOnFace(pieces[i], f, config) THEN f ELSE NullColor)
        /\ \A i \in DOMAIN pieces :
              ~InTopLayer(pieces[i]) => pieces[i] = CreatePieces(puzzle, config)[i]

C12_Witness ==
    /\ DrainedAfter("u", FALSE)
    /\ pieces # CreatePieces(puzzle, config)
    /\ \E i \in TopRow(4) : CubeGetStickerColor(pieces[i], 4, config) # 4

\* outward unit normal of world face f
FaceNormal(f) == [a \in 0..2 |-> IF a = FACE_INFO[f].axis THEN FACE_INFO[f].dir ELSE 0]

\* Quarter turn of v about the normal n, clockwise for an observer outside the
\* cube looking at the face.  With X+ to the right, Y- to the top and Z+ to the
\* front the frame (x, y, z) is left-handed, so on the front face (n = +z)
\* clockwise carries +x (right) to +y (down): v -> n x v on the face plane.
TurnClockwise(v, n) ==
    LET c == Cross(n, v)
        d == Dot(n, v)
    IN [a \in 0..2 |-> c[a] + n[a] * d]

TurnCounter(v, n) ==
    LET c == Cross(n, v)
        d == Dot(n, v)
    IN [a \in 0..2 |-> -c[a] + n[a] * d]

\* the face a key names: 'u' top, 'd' bottom, 'l' left, 'r' right, 'f' front, 'b' back
KeyFaceIndex(key) == faceColorIndex(CubeBaseMoves[key].axis, CubeBaseMoves[key].side)

\* the solved store with the outer layer of face f turned clockwise (or back)
FaceTurned(f, clockwise) ==
    LET solved == CreatePieces(puzzle, config)
        turn(v) == IF clockwise THEN TurnClockwise(v, FaceNormal(f))
                   ELSE TurnCounter(v, FaceNormal(f))
    IN [i \in DOMAIN solved |->
           IF ~CubeOnFace(solved[i], f, config) THEN solved[i]
           ELSE [solved[i] EXCEPT !.m = turn(solved[i].m),
                                  !.p = [j \in 0..7 |-> turn(solved[i].p[j])]]]

\* C13: each unshifted face key U, D, L, R, F, B turns its own face clockwise
\* as seen from outside (Top = Y-, Right = X+, Front = Z+), and the key with
\* Shift applies the inverse quarter turn of the same layer.
C13_FaceKeysClockwise ==
    \A key \in DOMAIN CubeBaseMoves : \A shift \in BOOLEAN :
        DrainedAfter(key, shift) => pieces = FaceTurned(KeyFaceIndex(key), ~shift)

----------------------------------------------------------------------------
(* Configuration UI, loadPuzzle and reset: the wholesale rebuilds of the     *)
(* piece store.  Here run counts the rebuilds and remembers, from the last  *)
(* one, the numeric input that caused it, whether it left the engine fresh, *)
(* and the structural parameters it built the store for.                    *)

MaxRebuilds == 2      \* loadPuzzle, reset and config change events per behaviour

\* configParams of type number
CubeConfigParams ==
    [k \in {"N", "borderWidth"} |->
        IF k = "N" THEN [min |-> 1, max |-> 10, default |-> 3]
        ELSE [min |-> 1, max |-> 5, default |-> 2]]

PyraConfigParams == [k \in {"N"} |-> [min |-> 2, max |-> 8, default |-> 3]]

ConfigParams(pz) == IF pz = "cube" THEN CubeConfigParams ELSE PyraConfigParams

\* the result of parseInt is a number or NaN
NaN == [nan |-> TRUE]
Num(n) == [nan |-> FALSE, val |-> n]

Digits == <<"0", "1", "2", "3", "4", "5", "6", "7", "8", "9">>
IsDigit(ch) == \E d \in 1..10 : Digits[d] = ch
DigitValue(ch) == (CHOOSE d \in 1..10 : Digits[d] = ch) - 1

\* the value of the longest run of digits of text that starts at position k
RECURSIVE ParseDigits(_, _, _)
ParseDigits(text, k, acc) ==
    IF k > Len(text) \/ ~IsDigit(text[k]) THEN acc
    ELSE ParseDigits(text, k + 1, 10 * acc + DigitValue(text[k]))

\* parseInt(text): optional sign, then the leading digits; NaN without a digit.
\* text is the input's value as a sequence of characters.
ParseInt(text) ==
    LET signed == Len(text) >= 1 /\ text[1] \in {"-", "+"}
        first == IF signed THEN 2 ELSE 1
    IN IF first > Len(text) \/ ~IsDigit(text[first]) THEN NaN
       ELSE Num((IF signed /\ text[1] = "-" THEN -1 ELSE 1) * ParseDigits(text, first, 0))

\* parseInt(input.value) || param.default: NaN and 0 are falsy
OrDefault(parsed, default) == IF parsed.nan \/ parsed.val = 0 THEN default ELSE parsed.val

\* Math.max(param.min, Math.min(max, parseInt(input.value) || param.default))
ClampedInput(pz, cfg, key, text) ==
    LET param == ConfigParams(pz)[key]
        max == IF key = "borderWidth" THEN CeilHalf(cfg.N) ELSE param.max
    IN Max2(param.min, Min2(max, OrDefault(ParseInt(text), param.default)))

\* texts typed into a numeric config input: empty, 0, -1, 2, 4, 11
ConfigTexts == {<<>>, <<"0">>, <<"-", "1">>, <<"2">>, <<"4">>, <<"1", "1">>}

\* what a click on a canvas can select (hitTest / getClickTarget result)
Hits == {[piece |-> 1, face |-> 0]}

\* the engine state PuzzleEngine.onConfigChange(key) leaves, without clearing
\* the animation queue
EngineOnConfigChangeKeepQueue(key, pz, cfg, ps, q, cur, sel, depth) ==
    IF key = "N" \/ key = "borderWidth"
    THEN [pieces |-> CreatePieces(pz, cfg),
          queue |-> q,
          current |-> cur,
          selected |-> NoSelection,
          selectedDepth |-> 1,
          config |-> [cfg EXCEPT !.selectedDepth = 1],
          rebuilt |-> TRUE]
    ELSE [pieces |-> ps, queue |-> q, current |-> cur, selected |-> sel,
          selectedDepth |-> depth, config |-> cfg, rebuilt |-> FALSE]

\* PuzzleEngine.onConfigChange(key): rebuild for the structural keys
EngineOnConfigChange(key, pz, cfg, ps, q, cur, sel, depth) ==
    IF key = "N" \/ key = "borderWidth"
    THEN [pieces |-> CreatePieces(pz, cfg),
          queue |-> AnimClear(q, cur).queue,
          current |-> AnimClear(q, cur).current,
          selected |-> NoSelection,
          selectedDepth |-> 1,
          config |-> [cfg EXCEPT !.selectedDepth = 1],
          rebuilt |-> TRUE]
    ELSE [pieces |-> ps, queue |-> q, current |-> cur, selected |-> sel,
          selectedDepth |-> depth, config |-> cfg, rebuilt |-> FALSE]

\* the state every wholesale replacement leaves
FreshState(pz, cfg, ps, q, cur, sel) ==
    /\ ps = CreatePieces(pz, cfg)
    /\ q = <<>>
    /\ cur = NoMove
    /\ sel = NoSelection

Fresh == FreshState(puzzle, config, pieces, queue, current, selected)

\* the puzzle and its structural parameters
Structure(pz, cfg) ==
    [pz |-> pz, N |-> cfg.N,
     borderWidth |-> IF "borderWidth" \in DOMAIN cfg THEN cfg.borderWidth ELSE 0]

ConfigInit ==
    /\ \E pz \in {"cube", "pyraminx"} : EngineLoaded([pz |-> pz, N |-> DefaultConfig(pz).N])
    /\ run = [rebuilds |-> 0, key |-> "", text |-> <<>>, fresh |-> TRUE,
              built |-> Structure(puzzle, config)]

\* the engine as onConfigChange left it
Adopted(e) ==
    /\ config' = e.config
    /\ pieces' = e.pieces
    /\ queue' = e.queue
    /\ current' = e.current
    /\ selected' = e.selected
    /\ selectedDepth' = e.selectedDepth

\* the record of a numeric change that onConfigChange answered with e
Changed(key, text, e) ==
    /\ Adopted(e)
    /\ history' = IF e.rebuilt THEN <<>> ELSE history
    /\ run' = [rebuilds |-> run.rebuilds + 1, key |-> key, text |-> text,
               fresh |-> FreshState(puzzle, e.config, e.pieces, e.queue,
                                    e.current, e.selected),
               built |-> Structure(puzzle, e.config)]

\* the record of a wholesale rebuild into the store ps, the queue emptied to a
Rebuilt(pz, cfg, ps, a) ==
    /\ pieces' = ps
    /\ queue' = a.queue
    /\ current' = a.current
    /\ selected' = NoSelection
    /\ run' = [rebuilds |-> run.rebuilds + 1, key |-> "", text |-> <<>>,
               fresh |-> FreshState(pz, cfg, ps, a.queue, a.current, NoSelection),
               built |-> Structure(pz, cfg)]

\* 'change' handler of a numeric config input
ChangeNumber(key, text) ==
    /\ run.rebuilds < MaxRebuilds
    /\ key \in DOMAIN ConfigParams(puzzle)
    /\ Changed(key, text,
               EngineOnConfigChange(key, puzzle,
                   OnConfigChange(puzzle,
                       [config EXCEPT ![key] = ClampedInput(puzzle, config, key, text)]),
                   pieces, queue, current, NoSelection, 1))
    /\ UNCHANGED <<puzzle, moveStart, moveDuration, time, ret, enqueued, committed>>

\* 'change' handler of the imageMode checkbox (cube only)
ToggleImage ==
    /\ "imageMode" \in DOMAIN config
    /\ Adopted(EngineOnConfigChange("imageMode", puzzle,
                   OnConfigChange(puzzle, [config EXCEPT !.imageMode = ~@]),
                   pieces, queue, current, selected, selectedDepth))
    /\ UNCHANGED <<puzzle, moveStart, moveDuration, time, ret, enqueued, committed,
                   history, run>>

\* puzzle selector 'change': engine.loadPuzzle(factory())
LoadPuzzle(pz) ==
    /\ run.rebuilds < MaxRebuilds
    /\ puzzle' = pz
    /\ config' = LoadedConfig(pz, DefaultConfig(pz).N)
    /\ Rebuilt(pz, LoadedConfig(pz, DefaultConfig(pz).N),
               CreatePieces(pz, OnConfigChange(pz, DefaultConfig(pz))),
               AnimClear(queue, current))
    /\ selectedDepth' = 1
    /\ history' = <<>>
    /\ UNCHANGED <<moveStart, moveDuration, time, ret, enqueued, committed>>

\* PuzzleEngine.reset()
Reset ==
    /\ run.rebuilds < MaxRebuilds
    /\ Rebuilt(puzzle, config, CreatePieces(puzzle, config), AnimClear(queue, current))
    /\ history' = <<>>
    /\ UNCHANGED <<puzzle, config, moveStart, moveDuration, time, ret, selectedDepth,
                   enqueued, committed>>

\* canvas 'click': this.selected = hit
ClickSelect(hit) ==
    /\ selected' = hit
    /\ UNCHANGED <<puzzle, config, pieces, queue, current, moveStart, moveDuration,
                   time, ret, selectedDepth, enqueued, committed, history, run>>

\* text typed in the specification of the rebuilds: 1
RebuildTexts == {<<"1">>}

ConfigNext ==
    \/ \E key \in {"N", "borderWidth"}, text \in RebuildTexts : ChangeNumber(key, text)
    \/ ToggleImage
    \/ \E pz \in {"cube", "pyraminx"} : LoadPuzzle(pz)
    \/ Reset
    \/ \E hit \in Hits : ClickSelect(hit)
    \/ \E key \in {"u", "i"} : KeyFace(key, FALSE)
    \/ \E g \in {0, moveDuration} : Frame(time + g)

SpecConfig == ConfigInit /\ [][ConfigNext]_vars

\* number of queueMove calls before the piece store was last built
Epoch == enqueued - Len(history)

\* the moves committed since the piece store was last built
CommittedSinceBuild ==
    LET ids == SelectSeq(committed, LAMBDA id : id > Epoch)
    IN [k \in 1..Len(ids) |-> history[ids[k] - Epoch]]

\* C14: loadPuzzle, reset and a change of N or borderWidth each leave the
\* piece store equal to createPieces(config), the queue empty, no move in
\* flight and the selection null; the puzzle, N and borderWidth are always
\* those of the last such rebuild (they never change in any other step); and
\* the store is always the freshly created one with only moves queued after
\* its creation applied to it, every queued or in-flight move being one of
\* those.
C14_WholesaleReplacement ==
    /\ run.fresh
    /\ Structure(puzzle, config) = run.built
    /\ pieces = ApplyAll(puzzle, CreatePieces(puzzle, config), CommittedSinceBuild)
    /\ \A k \in 1..Len(queue) : queue[k].id > Epoch
    /\ current # NoMove => current.id > Epoch

\* a rebuild for another size discarded moves queued for the old store, and a
\* move queued afterwards has been committed on the new one
C14_Witness ==
    /\ run.rebuilds >= 1
    /\ run.key = "N"
    /\ Epoch >= 1
    /\ committed # <<>>
    /\ \A k \in 1..Len(committed) : committed[k] > Epoch
    /\ pieces # CreatePieces(puzzle, config)
    /\ config.N # DefaultConfig(puzzle).N

----------------------------------------------------------------------------
(* The numeric config inputs on their own, with texts inside and outside the *)
(* parameter ranges *)

ClampNext ==
    \/ \E key \in {"N", "borderWidth"}, text \in ConfigTexts : ChangeNumber(key, text)
    \/ ToggleImage
    \/ \E pz \in {"cube", "pyraminx"} : LoadPuzzle(pz)

SpecClamp == ConfigInit /\ [][ClampNext]_vars

\* C15: after a change event on a numeric config input the stored value lies
\* in [param.min, param.max], an integer below the minimum is stored as the
\* minimum and one above the maximum as the maximum (for borderWidth the
\* maximum in force is ceil(N/2)); and the cube's borderWidth always satisfies
\* 1 <= borderWidth <= ceil(N/2).
C15_ConfigClamped ==
    /\ puzzle = "cube" => (1 <= config.borderWidth /\ config.borderWidth <= CeilHalf(config.N))
    /\ run.key # "" =>
         LET param == ConfigParams(puzzle)[run.key]
             max == IF run.key = "borderWidth" THEN CeilHalf(config.N) ELSE param.max
             typed == ParseInt(run.text)
             stored == config[run.key]
         IN /\ param.min <= stored /\ stored <= param.max
            /\ (~typed.nan /\ typed.val < param.min) => stored = param.min
            /\ (~typed.nan /\ typed.val > max) => stored = max

----------------------------------------------------------------------------
(* Moves that select no piece, handed to queueMove like any other move *)

\* a cube layer one step beyond the outer layer; a pyraminx depth below 0; a
\* megaminx move whose axis is the zero vector
NoopMoveOf(pz, cfg) ==
    IF pz = "cube" THEN [axis |-> 1, layer |-> cfg.half + CubeScale, dir |-> 1]
    ELSE IF pz = "pyraminx" THEN [vertex |-> 0, axis |-> AXES[0], depth |-> -1, dir |-> 1]
    ELSE [face |-> 0, axis |-> Vec3(PhiInt(0), PhiInt(0), PhiInt(0)), dir |-> 1]

\* a move of the puzzle's own keys
KeyMoveOf(pz, cfg) ==
    ResolveMove(pz, BaseMoves(pz)[IF pz = "pyraminx" THEN "i" ELSE "u"], FALSE, cfg)

\* engine.animation.queueMove(move)
QueueMove(move) ==
    /\ enqueued < MaxEnqueued
    /\ queue' = Pushed(queue, enqueued, <<move>>)
    /\ history' = Append(history, move)
    /\ enqueued' = enqueued + 1
    /\ UNCHANGED <<puzzle, config, pieces, current, moveStart, moveDuration, time, ret,
                   selectedDepth, selected, committed, run>>

NoopNext ==
    \/ \E move \in {NoopMoveOf(puzzle, config), KeyMoveOf(puzzle, config)} : QueueMove(move)
    \/ \E g \in {0, moveDuration} : RunFrame(time + g)

\* each of the three registered puzzles, loaded
NoopInit == Init \/ EngineInit([pz |-> "megaminx", N |-> 0])

SpecNoop == NoopInit /\ [][NoopNext]_vars

\* the move's selector (isPieceInMove) matches some piece of the store
Matches(pz, ps, move) == \E i \in DOMAIN ps : IsPieceInMove(pz, ps[i], move)

\* the moves applied in order, those matching no piece left out
RECURSIVE ApplyMatching(_, _, _)
ApplyMatching(pz, ps, moves) ==
    IF moves = <<>> THEN ps
    ELSE ApplyMatching(pz,
                       IF Matches(pz, ps, Head(moves))
                       THEN ApplyRotation(pz, ps, Head(moves)) ELSE ps,
                       Tail(moves))

\* C16: a move whose selector matches no piece goes through the queue like
\* any other: the moves are committed in the order queued, none is skipped,
\* every queued move is committed once the queue has drained, a move in
\* flight has not yet used up its duration, and the store is the created one
\* with the committed moves that match a piece applied in order (the commit of
\* a move matching no piece changes nothing).
C16_NoopMoves ==
    /\ committed = [k \in 1..Len(committed) |-> k]
    /\ ~IsAnimating => Len(committed) = enqueued
    /\ current # NoMove => time - moveStart < moveDuration
    /\ pieces = ApplyMatching(puzzle, CreatePieces(puzzle, config),
                              [k \in 1..Len(committed) |-> history[committed[k]]])

\* a move matching no piece was committed, and the move queued behind it too
C16_Witness ==
    /\ ~IsAnimating
    /\ committed = <<1, 2>>
    /\ ~Matches(puzzle, CreatePieces(puzzle, config), history[1])
    /\ Matches(puzzle, CreatePieces(puzzle, config), history[2])
    /\ pieces # CreatePieces(puzzle, config)

----------------------------------------------------------------------------
(* Colour detection of the cube over solved, scrambled and turned stores *)

\* number of the three index-bit splits that are uniform on the vertex set fv
UniformSplits(fv) == Cardinality({k \in 0..2 : CubeSplitUniform(fv, k)})

\* C17: in every reachable state of the cube, for every piece and every face
\* index for which getStickerColor does not return null, the extreme vertex
\* set has exactly 4 members and exactly one of the three index-bit splits is
\* uniform, so getStickerColor never returns through its fallback.
C17_NoColorFallback ==
    puzzle = "cube" =>
        \A i \in DOMAIN pieces : \A f \in 0..5 :
            CubeOnFace(pieces[i], f, config) =>
                LET fv == CubeFaceVerts(pieces[i], f)
                IN /\ Cardinality(fv) = 4
                   /\ UniformSplits(fv) = 1
                   /\ ~CubeColorFallback(pieces[i], f, config)

\* a scrambled and turned store where some outer face shows another face's colour
C17_Witness ==
    /\ puzzle = "cube"
    /\ run.applied >= 2
    /\ run.count >= 1
    /\ config.N >= 3
    /\ \E i \in DOMAIN pieces : \E f \in 0..5 :
           /\ CubeOnFace(pieces[i], f, config)
           /\ CubeGetStickerColor(pieces[i], f, config) # f

\* the world face slot defIdx of the piece faces now (-1 if none)
SlotWorldFace(piece, defIdx) == CubeDetectWorldFace(piece, CubeSlotVerts(piece, defIdx))

\* C18: in every reachable state of the cube, for every piece and every face
\* slot that carries a sticker, the colour getStickerColor derives from the
\* geometry for the world face the slot now faces (the trefoil view's lookup)
\* equals the faceId recorded on the sticker (the 3D renderer's lookup); and a
\* slot faces outward on an outer layer exactly when it carries a sticker.
C18_ViewsAgree ==
    puzzle = "cube" =>
        \A i \in DOMAIN pieces : \A d \in 0..5 :
            LET fi == SlotWorldFace(pieces[i], d)
                outward == fi >= 0 /\ CubeOnFace(pieces[i], fi, config)
            IN /\ outward <=> pieces[i].stickers[d] # NoSticker
               /\ pieces[i].stickers[d] # NoSticker =>
                      CubeGetStickerColor(pieces[i], fi, config) = pieces[i].stickers[d].faceId

\* a scrambled and turned store where a stickered slot faces another world
\* face than at creation, and some slot of the same store carries no sticker
C18_Witness ==
    /\ puzzle = "cube"
    /\ run.applied >= 2
    /\ run.count >= 1
    /\ \E i \in DOMAIN pieces : \E d \in 0..5 :
           /\ pieces[i].stickers[d] # NoSticker
           /\ SlotWorldFace(pieces[i], d) # pieces[i].stickers[d].faceId
    /\ \E i \in DOMAIN pieces : \E d \in 0..5 : pieces[i].stickers[d] = NoSticker

----------------------------------------------------------------------------
(* Megaminx: a face turn has order five *)

\* C20: five applications of one megaminx face move (any of the 12 faces,
\* either direction) bring every piece's m and p back to the values before the
\* first, and each of the applications selects the same set of pieces, the
\* ones with dot3(m, axis) > LAYER_THRESHOLD.
C20_MegaOrderFive ==
    puzzle = "megaminx" =>
        /\ run.count >= 1 => run.same
        /\ run.count = 5 => pieces = run.pre

\* a full turn on a scrambled store: eleven pieces turned five times, each
\* back on its place
C20_Witness ==
    /\ puzzle = "megaminx"
    /\ run.count = 5
    /\ run.applied >= 2
    /\ Cardinality(run.sel) = 11
    /\ run.pre # CreatePieces(puzzle, config)
    /\ pieces = run.pre

----------------------------------------------------------------------------
(* Rigidity of the pieces under committed moves *)

MaxRigidN == 3          \* largest cube and pyraminx size of the rigidity check
MaxRigidApplied == 3    \* scramble moves applied before the free move

\* the small cube and pyraminx configurations, and the megaminx
RigidInit ==
    \/ \E N \in 2..MaxRigidN : \E bw \in 1..CeilHalf(N) :
           AlgebraInit("cube", CubeOnConfigChange([CubeDefaultConfig EXCEPT !.N = N,
                                                                            !.borderWidth = bw]))
    \/ \E N \in 2..MaxRigidN :
           AlgebraInit("pyraminx", PyraOnConfigChange([PyraDefaultConfig EXCEPT !.N = N]))
    \/ MegaInit

\* a scramble prefix, then any one move of the puzzle
RigidNext ==
    \/ \E seed \in ScrambleSeeds : run.applied < MaxRigidApplied /\ ScrambleStep(seed)
    \/ \E move \in Moves(puzzle, config) : ApplyInSeries(move, 1)

SpecRigid == RigidInit /\ [][RigidNext]_vars

\* integers beyond 32 bits: <<hi, lo>> is hi * WideBase + lo, 0 <= lo < WideBase
WideBase == 1000000
WideHalf == 1000

\* x * y in three parts <<hh, mid, ll>> = hh * WideBase + mid * WideHalf + ll
WideParts(x, y) ==
    LET xh == x \div WideHalf
        xl == x % WideHalf
        yh == y \div WideHalf
        yl == y % WideHalf
    IN <<xh * yh, xh * yl + xl * yh, xl * yl>>

WideSum(s, t) == <<s[1] + t[1], s[2] + t[2], s[3] + t[3]>>

Wide(s) ==
    LET lo == (s[2] % WideHalf) * WideHalf + s[3]
    IN <<s[1] + (s[2] \div WideHalf) + (lo \div WideBase), lo % WideBase>>

\* the squared distance of two points of integer coordinates
IntDist2(u, v) ==
    (u[0] - v[0]) * (u[0] - v[0]) + (u[1] - v[1]) * (u[1] - v[1])
        + (u[2] - v[2]) * (u[2] - v[2])

\* the squared distance A + B phi of two points of coordinates <<a, b>>, in
\* units of 1/MegaScale squared: (a + b phi)^2 = a*a + b*b + (2*a*b + b*b) phi
MegaDist2(u, v) ==
    LET a == <<u[0][1] - v[0][1], u[1][1] - v[1][1], u[2][1] - v[2][1]>>
        b == <<u[0][2] - v[0][2], u[1][2] - v[1][2], u[2][2] - v[2][2]>>
        aa == WideSum(WideSum(WideParts(a[1], a[1]), WideParts(a[2], a[2])),
                      WideParts(a[3], a[3]))
        bb == WideSum(WideSum(WideParts(b[1], b[1]), WideParts(b[2], b[2])),
                      WideParts(b[3], b[3]))
        ab == WideSum(WideSum(WideParts(a[1], b[1]), WideParts(a[2], b[2])),
                      WideParts(a[3], b[3]))
    IN <<Wide(WideSum(aa, bb)), Wide(WideSum(WideSum(ab, ab), bb))>>

Dist2(pz, u, v) == IF pz = "megaminx" THEN MegaDist2(u, v) ELSE IntDist2(u, v)

\* the centroid in the unit of the vertices
CentroidOf(pz, piece) ==
    IF pz = "megaminx"
    THEN LET k == MegaScale \div MegaCentroidScale
         IN [x \in 0..2 |-> <<k * piece.m[x][1], k * piece.m[x][2]>>]
    ELSE piece.m

\* the first slot of the piece that holds the same point as slot i
FirstSlot(piece, i) == CHOOSE r \in DOMAIN piece.p :
                           /\ piece.p[r] = piece.p[i]
                           /\ \A q \in DOMAIN piece.p : piece.p[q] = piece.p[i] => r <= q

\* the shape of a piece as built: its slots, for each slot the first slot on
\* the same point, and the squared distances between the points and from
\* each point to the centroid
Shape(pz, built) ==
    LET rep == Tabulated([i \in DOMAIN built.p |-> FirstSlot(built, i)])
        first == {i \in DOMAIN built.p : rep[i] = i}
        cb == CentroidOf(pz, built)
    IN [slots |-> DOMAIN built.p,
        rep |-> rep,
        first |-> first,
        between |-> Tabulated([ij \in {ij \in first \X first : ij[1] < ij[2]} |->
                                  Dist2(pz, built.p[ij[1]], built.p[ij[2]])]),
        toCentroid |-> Tabulated([i \in first |-> Dist2(pz, built.p[i], cb)])]

\* the piece has the shape: the same slots; the slots that were built on one
\* point still hold one point; and between the other slots, and from each to
\* the centroid, the distances of the built piece.  (Equal points are the
\* pairs at distance zero, so this is every pairwise distance.)
HasShape(pz, piece, shape) ==
    LET c == CentroidOf(pz, piece)
    IN /\ DOMAIN piece.p = shape.slots
       /\ \A i \in shape.slots : piece.p[i] = piece.p[shape.rep[i]]
       /\ \A ij \in DOMAIN shape.between :
              Dist2(pz, piece.p[ij[1]], piece.p[ij[2]]) = shape.between[ij]
       /\ \A i \in shape.first : Dist2(pz, piece.p[i], c) = shape.toCentroid[i]

\* the shapes of the 62 megaminx pieces, which no configuration changes
MegaShapes == Tabulated([i \in DOMAIN MegaCreatePieces |-> Shape("megaminx", MegaCreatePieces[i])])

BuiltShapes(pz, cfg) ==
    IF pz = "megaminx" THEN MegaShapes
    ELSE LET built == CreatePieces(pz, cfg)
         IN [i \in DOMAIN built |-> Shape(pz, built[i])]

\* C19: in every reachable store, of every puzzle, every piece is rigid: its
\* vertex slots are the ones it was built with, in the same order, and every
\* distance between two of its vertices and between a vertex and its centroid
\* equals the distance in the freshly built piece.
C19_Rigidity ==
    LET shapes == BuiltShapes(puzzle, config)
    IN /\ DOMAIN pieces = DOMAIN shapes
       /\ \A i \in DOMAIN pieces : HasShape(puzzle, pieces[i], shapes[i])

\* a megaminx store after a scramble prefix and a move: every piece of the
\* turned layer is away from where it was built
C19_Witness ==
    /\ run.count = 1
    /\ run.applied >= 2
    /\ run.sel # {}
    /\ \A i \in run.sel : pieces[i].p # CreatePieces(puzzle, config)[i].p
    /\ puzzle = "megaminx"

----------------------------------------------------------------------------
(* CubeTrefoilView.render: shortest arc delta and majority vote             *)
(*                                                                         *)
(* Angles are integers in units of pi / ArcHalf, so a full turn is         *)
(* 2 * ArcHalf.  A sticker riding on the rotating ring starts and ends on   *)
(* two different points of that ring, so endAng - startAng is never a      *)
(* multiple of a full turn.                                                *)

ArcHalf == 3          \* angle units in half a turn
MaxArcs == 3          \* arc entries of one rendered frame

FullTurn == 2 * ArcHalf

\* endAng - startAng of two atan2 results for two different points of a ring
RawDeltas == {d \in (1 - FullTurn)..(FullTurn - 1) : d # 0}

RECURSIVE ShortestDelta(_)
\* while (delta > PI) delta -= 2 PI; while (delta < -PI) delta += 2 PI
ShortestDelta(delta) ==
    IF delta > ArcHalf THEN ShortestDelta(delta - FullTurn)
    ELSE IF delta < -ArcHalf THEN ShortestDelta(delta + FullTurn)
    ELSE delta

PosCount(deltas) == Cardinality({i \in DOMAIN deltas : deltas[i] > 0})

MajorityPositiveAny(deltas) ==
    PosCount(deltas) > 0

\* posCount > arcEntries.length / 2
MajorityPositive(deltas) ==
    2 * PosCount(deltas) > Len(deltas)

\* the corrected delta d of one arc entry
CorrectedDelta(d, majorityPositive) ==
    IF majorityPositive /\ d < 0 THEN d + FullTurn
    ELSE IF ~majorityPositive /\ d > 0 THEN d - FullTurn
    ELSE d

MajorityVote(deltas) ==
    [i \in DOMAIN deltas |-> CorrectedDelta(deltas[i], MajorityPositive(deltas))]

\* the arc entries of a frame about to be rendered: between 1 and MaxArcs raw deltas
ArcInit ==
    /\ EngineLoaded([pz |-> "cube", N |-> 2])
    /\ \E n \in 1..MaxArcs : \E raws \in [1..n -> RawDeltas] :
           run = [raws |-> raws, deltas |-> <<>>, corrected |-> <<>>]

\* one render call with a move in flight: the arc entries' deltas, then the vote
RenderArcs ==
    /\ run.deltas = <<>>
    /\ run' = [run EXCEPT
                  !.deltas = [i \in DOMAIN run.raws |-> ShortestDelta(run.raws[i])],
                  !.corrected = MajorityVote([i \in DOMAIN run.raws |->
                                                 ShortestDelta(run.raws[i])])]
    /\ UNCHANGED <<puzzle, config, pieces, queue, current, moveStart, moveDuration, time,
                   ret, selectedDepth, selected, enqueued, committed, history>>

ArcNext == RenderArcs

SpecArc == ArcInit /\ [][ArcNext]_vars

NegCount(deltas) == Cardinality({i \in DOMAIN deltas : deltas[i] < 0})

\* C21: after the majority vote every corrected delta has the sign of the
\* majority (on a tie the negative sign), every corrected delta differs from
\* its input by nothing or by exactly one full turn, and deltas that all have
\* the same sign are left unchanged.
C21_MajorityVote ==
    LET d == run.deltas
        c == run.corrected
    IN d # <<>> =>
       /\ DOMAIN c = DOMAIN d
       /\ 2 * PosCount(d) > Len(d) => \A i \in DOMAIN c : c[i] > 0
       /\ 2 * NegCount(d) > Len(d) => \A i \in DOMAIN c : c[i] < 0
       /\ (\A i \in DOMAIN c : c[i] > 0) \/ (\A i \in DOMAIN c : c[i] < 0)
       /\ \A i \in DOMAIN c : c[i] - d[i] \in {0, FullTurn, -FullTurn}
       /\ (PosCount(d) = Len(d) \/ NegCount(d) = Len(d)) => c = d

\* three arcs, two of them positive, and the negative one was turned around
C21_Witness ==
    /\ Len(run.deltas) = 3
    /\ PosCount(run.deltas) = 2 /\ NegCount(run.deltas) = 1
    /\ \E i \in DOMAIN run.deltas : run.corrected[i] = run.deltas[i] + FullTurn
    /\ \E i \in DOMAIN run.raws : run.raws[i] # run.deltas[i]

----------------------------------------------------------------------------
(* CubeTrefoilView: the stickers listed by render and their slots           *)

MaxViewN == 3          \* largest cube size of the view checks
MaxViewApplied == 3    \* scramble moves applied before the free move

\* cube sizes 1..MaxViewN with every border width the config UI lets through
ViewInit ==
    \E N \in 1..MaxViewN : \E bw \in 1..CeilHalf(N) :
        AlgebraInit("cube", CubeOnConfigChange([CubeDefaultConfig EXCEPT !.N = N,
                                                                         !.borderWidth = bw]))

\* a scramble prefix, then any one move of the cube
ViewNext ==
    \/ \E seed \in ScrambleSeeds : run.applied < MaxViewApplied /\ ScrambleStep(seed)
    \/ \E move \in Moves(puzzle, config) : ApplyInSeries(move, 1)

SpecView == ViewInit /\ [][ViewNext]_vars

FACE_AXIS == [f \in 0..5 |-> FACE_INFO[f].axis]

INNER_FACES_WithBottom == {0, 1, 3, 4}

INNER_FACES == {0, 3, 4}

\* render's own face detection for face slot defIdx of a cubie: the first
\* axis on which the slot's four vertices agree decides; fi stays -1 unless
\* the cubie lies on that outer layer
TrefoilFace(cubie, defIdx, cfg) ==
    LET facePs == CubeSlotVerts(cubie, defIdx)
        flat(ax) == \A k \in 1..4 : Abs(facePs[k][ax] - facePs[1][ax]) < 1
        found(ax) ==
            LET d == IF facePs[1][ax] > cubie.m[ax] THEN 1 ELSE -1
            IN IF Abs(cubie.m[ax] - d * cfg.half) < 1
               THEN [fi |-> faceColorIndex(ax, d), stickerAxis |-> ax, stickerDir |-> d]
               ELSE [fi |-> -1, stickerAxis |-> -1, stickerDir |-> 0]
    IN IF flat(0) THEN found(0)
       ELSE IF flat(1) THEN found(1)
       ELSE IF flat(2) THEN found(2)
       ELSE [fi |-> -1, stickerAxis |-> -1, stickerDir |-> 0]

\* Math.round of a non-negative coordinate given in units of 1/CubeScale
RoundUnits(x) == (2 * x + CubeScale) \div (2 * CubeScale)

\* stickerTo2D(faceIndex, cubieM, config): the point is the intersection of
\* ring ringA of ring set rsA with ring ringB of ring set rsB, on the branch
\* pickInner; it is represented by these five arguments of circleIntersection
stickerTo2D(faceIndex, cubieM, cfg) ==
    LET rsA == OtherAxes(FACE_AXIS[faceIndex])[1]
        rsB == OtherAxes(FACE_AXIS[faceIndex])[2]
    IN [rsA |-> rsA, rsB |-> rsB,
        ringA |-> RoundUnits(cubieM[rsA] + cfg.half),
        ringB |-> RoundUnits(cubieM[rsB] + cfg.half),
        pickInner |-> faceIndex \in INNER_FACES]

\* allStickers of a render call without a move: one entry per cubie and face
\* slot whose detection gives a face
AllStickers(ps, cfg) ==
    {[cubie |-> i, def |-> d, fi |-> TrefoilFace(ps[i], d, cfg).fi,
      at |-> stickerTo2D(TrefoilFace(ps[i], d, cfg).fi, ps[i].m, cfg)] :
        <<i, d>> \in {x \in (DOMAIN ps) \X (0..5) : TrefoilFace(ps[x[1]], x[2], cfg).fi >= 0}}

\* number of cubies on the surface of an N x N x N cube
SurfaceCount(N) == IF N = 1 THEN 1 ELSE N * N * N - (N - 2) * (N - 2) * (N - 2)

\* C22: in every reachable state of a cube with all surface cubies present
\* the trefoil view lists exactly 6 * N * N stickers, and no two of them share
\* a slot (the two ring sets, the ring index on each and the inner/outer
\* branch).
C22_TrefoilPlacement ==
    (puzzle = "cube" /\ Len(pieces) = SurfaceCount(config.N)) =>
        LET all == AllStickers(pieces, config)
        IN /\ Cardinality(all) = 6 * config.N * config.N
           /\ \A s \in all : \A t \in all : s.at = t.at => s = t
           /\ \A s \in all : s.at.ringA \in 0..(config.N - 1) /\ s.at.ringB \in 0..(config.N - 1)

\* the 3x3x3 cube with border width 2, scrambled and turned: 54 stickers
C22_Witness ==
    /\ puzzle = "cube" /\ config.N = 3 /\ config.borderWidth = 2
    /\ Len(pieces) = SurfaceCount(config.N)
    /\ run.applied >= 2 /\ run.count = 1
    /\ pieces # CreatePieces(puzzle, config)
    /\ Cardinality(AllStickers(pieces, config)) = 54

----------------------------------------------------------------------------
(* Renderer3D.render animates the pieces applyRotation will rotate          *)

MaxAnimApplied == 1    \* scramble moves applied before the free move

\* the small configurations of the three puzzles: a short scramble prefix,
\* then any one move
AnimNext ==
    \/ \E seed \in ScrambleSeeds : run.applied < MaxAnimApplied /\ ScrambleStep(seed)
    \/ \E move \in Moves(puzzle, config) : ApplyInSeries(move, 1)

SpecAnim == RigidInit /\ [][AnimNext]_vars

\* the pieces Renderer3D.render turns while move is in flight
Animated(pz, ps, move) == {i \in DOMAIN ps : IsPieceInMove(pz, ps[i], move)}

\* the pieces whose record differs after applyRotation(pieces, move)
Rotated(pz, ps, move) ==
    LET after == ApplyRotation(pz, ps, move)
    IN {i \in DOMAIN ps : after[i] # ps[i]}

\* C23: in every reachable state and for every move that can be queued, the
\* pieces for which isPieceInMove holds (the ones the 3D renderer animates)
\* are exactly the pieces applyRotation changes when the move commits; this
\* includes the cube, whose applyRotation uses its own membership test.
C23_AnimatedAreRotated ==
    \A move \in Moves(puzzle, config) :
        Animated(puzzle, pieces, move) = Rotated(puzzle, pieces, move)

\* a scrambled and turned cube where some move takes a proper, non-empty part
\* of the store
C23_Witness ==
    /\ puzzle = "cube" /\ config.N = 3
    /\ run.applied >= 1 /\ run.count = 1
    /\ \E move \in Moves(puzzle, config) :
           /\ Animated(puzzle, pieces, move) # {}
           /\ Animated(puzzle, pieces, move) # DOMAIN pieces
           /\ Rotated(puzzle, pieces, move) = Animated(puzzle, pieces, move)

----------------------------------------------------------------------------
(* AnimationQueue.update, one call at a time                                *)
(*                                                                         *)
(* run counts the update calls and records the last one: its time          *)
(* argument, the queue it found, whether it committed, and the current,    *)
(* moveStart, queue and return value it left.                              *)

MaxTicks == 4          \* update calls explored per behaviour

TickInit ==
    /\ \E c \in EngineConfigs : EngineLoaded(c)
    /\ run = [ticks |-> 0, t |-> 0, commit |-> FALSE, waiting |-> <<>>,
              current |-> NoMove, moveStart |-> 0, queue |-> <<>>,
              ret |-> [current |-> NoMove, progress |-> ZeroProgress]]

\* _frame(time): animation.update(time, puzzle, pieces), recorded
RecordedTick(t) ==
    /\ run.ticks < MaxTicks
    /\ LET u == AnimUpdate(t, puzzle, pieces, queue, current, moveStart, moveDuration)
       IN /\ pieces' = u.pieces
          /\ queue' = u.queue
          /\ current' = u.current
          /\ moveStart' = u.moveStart
          /\ ret' = u.ret
          /\ committed' = IF u.commit THEN Append(committed, current.id) ELSE committed
          /\ run' = [ticks |-> run.ticks + 1, t |-> t, commit |-> u.commit,
                     waiting |-> queue, current |-> u.current, moveStart |-> u.moveStart,
                     queue |-> u.queue, ret |-> u.ret]
    /\ time' = t
    /\ UNCHANGED <<puzzle, config, moveDuration, selectedDepth, enqueued, history, selected>>

\* frames arrive with the same timestamp, in mid-animation, exactly at the
\* end of a move, or three durations later
TickGaps == {0, moveDuration \div 2, moveDuration, 3 * moveDuration}

TickNext ==
    \/ \E key \in {"u", "r", "i"} : KeyFace(key, FALSE)
    \/ \E g \in TickGaps : RecordedTick(time + g)

SpecTick == TickInit /\ [][TickNext]_vars

\* C24: an update call that commits a move while the queue is non-empty
\* starts the head of the queue in the same call (its start time is the
\* call's time argument and the returned progress is 0) and commits no second
\* move, however far the time argument has advanced; right after every call
\* no move in flight implies an empty queue; and k committed moves have taken
\* at least k + 1 calls.
C24_OneCommitPerTick ==
    run.ticks > 0 =>
        /\ (run.commit /\ run.waiting # <<>>) =>
               /\ run.current = Head(run.waiting)
               /\ run.queue = Tail(run.waiting)
               /\ run.moveStart = run.t
               /\ run.ret = [current |-> run.current, progress |-> ZeroProgress]
        /\ run.current # NoMove => ~InSeq(run.current.id, committed)
        /\ run.current = NoMove => run.queue = <<>>
        /\ Len(committed) + 1 <= run.ticks

\* two queued moves, the first committed three durations after its start:
\* the second one started in the committing call and is still in flight
C24_Witness ==
    /\ run.ticks >= 2
    /\ run.commit /\ run.waiting # <<>>
    /\ run.t - moveDuration >= 2 * moveDuration
    /\ Len(committed) = 1
    /\ current # NoMove /\ current = run.current /\ moveStart = run.t

----------------------------------------------------------------------------
(* math.js rotatePoint at the end of a cube move                            *)
(*                                                                         *)
(* The renderer turns the vertices of a moving piece by                    *)
(* ease(progress) * moveAngle * dir with moveAngle = PI / 2.  Angles are    *)
(* counted in quarter turns, where cosine and sine are 0, 1 or -1.         *)

\* Math.cos and Math.sin of k quarter turns
CosQuarter(k) == CASE k % 4 = 0 -> 1 [] k % 4 = 2 -> -1 [] OTHER -> 0
SinQuarter(k) == CASE k % 4 = 1 -> 1 [] k % 4 = 3 -> -1 [] OTHER -> 0

\* rotatePoint with the usual right-handed matrix about the y axis
rotatePointRightHanded(v, axis, k) ==
    LET c == CosQuarter(k)
        s == SinQuarter(k)
    IN IF axis = 0 THEN [v EXCEPT ![1] = v[1] * c - v[2] * s, ![2] = v[1] * s + v[2] * c]
       ELSE IF axis = 1 THEN [v EXCEPT ![0] = v[0] * c + v[2] * s, ![2] = v[2] * c - v[0] * s]
       ELSE [v EXCEPT ![0] = v[0] * c - v[1] * s, ![1] = v[0] * s + v[1] * c]

\* rotatePoint([x, y, z], axis, angle), angle = k quarter turns
rotatePoint(v, axis, k) ==
    LET c == CosQuarter(k)
        s == SinQuarter(k)
    IN IF axis = 0 THEN [v EXCEPT ![1] = v[1] * c - v[2] * s, ![2] = v[1] * s + v[2] * c]
       ELSE IF axis = 1 THEN [v EXCEPT ![0] = v[0] * c - v[2] * s, ![2] = v[0] * s + v[2] * c]
       ELSE [v EXCEPT ![0] = v[0] * c - v[1] * s, ![1] = v[0] * s + v[1] * c]

\* the vertices Renderer3D.render draws for piece i while move is in flight,
\* at progress 0 (ease = 0) or 1 (ease = 1), before the spacing factor
AnimatedVerts(ps, i, move, progress) ==
    [j \in 0..7 |-> rotatePoint(ps[i].p[j], move.axis, progress * move.dir)]

----------------------------------------------------------------------------
(* CubeTrefoilView: the simulated end of a sticker on the moving layer      *)

\* newM of render and of computeArrowDirection (there with dir = 1)
PredictedM(m, axis, dir) ==
    LET planeA == OtherAxes(axis)[1]
        planeB == OtherAxes(axis)[2]
    IN [m EXCEPT ![planeA] = -m[planeB] * dir, ![planeB] = m[planeA] * dir]

\* newFi with the two signs exchanged
PredictedFaceMirrored(fi, stickerAxis, stickerDir, axis, dir) ==
    LET planeA == OtherAxes(axis)[1]
        planeB == OtherAxes(axis)[2]
    IN IF stickerAxis = axis THEN fi
       ELSE IF stickerAxis = planeA THEN faceColorIndex(planeB, -stickerDir * dir)
       ELSE faceColorIndex(planeA, stickerDir * dir)

\* newFi of render
PredictedFace(fi, stickerAxis, stickerDir, axis, dir) ==
    LET planeA == OtherAxes(axis)[1]
        planeB == OtherAxes(axis)[2]
    IN IF stickerAxis = axis THEN fi
       ELSE IF stickerAxis = planeA THEN faceColorIndex(planeB, stickerDir * dir)
       ELSE faceColorIndex(planeA, -stickerDir * dir)

\* newFi of computeArrowDirection(piece, faceIndex, rotAxis, config)
ArrowPredictedFace(faceIndex, rotAxis) ==
    LET planeA == OtherAxes(rotAxis)[1]
        planeB == OtherAxes(rotAxis)[2]
    IN IF FACE_AXIS[faceIndex] = planeA
       THEN faceColorIndex(planeB, FACE_INFO[faceIndex].dir)
       ELSE faceColorIndex(planeA, -FACE_INFO[faceIndex].dir)

\* render's test for a sticker riding on the move
OnMovingLayer(cubie, move) == Abs(cubie.m[move.axis] - move.layer) < 1

\* C26: for every cube move and every listed sticker on a piece of the moving
\* layer, the end position newM and the end face newFi that render simulates
\* (and computeArrowDirection, for dir = +1 about an axis other than the
\* sticker's) are the piece position and the world face that sticker has
\* after applyRotation commits the move, so the sticker's animation ends on
\* the slot where the next idle frame draws it.
C26_PredictionMatchesCommit ==
    puzzle = "cube" =>
        LET after == Tabulated([move \in Moves(puzzle, config) |->
                                   ApplyRotation(puzzle, pieces, move)])
        IN \A i \in DOMAIN pieces : \A d \in 0..5 :
               LET tf == TrefoilFace(pieces[i], d, config)
               IN tf.fi >= 0 =>
                      \A move \in Moves(puzzle, config) :
                          LET newM == PredictedM(pieces[i].m, move.axis, move.dir)
                              newFi == PredictedFace(tf.fi, tf.stickerAxis, tf.stickerDir,
                                                     move.axis, move.dir)
                              end == TrefoilFace(after[move][i], d, config).fi
                          IN OnMovingLayer(pieces[i], move) =>
                                 /\ newM = after[move][i].m
                                 /\ newFi = end
                                 /\ newFi = SlotWorldFace(after[move][i], d)
                                 /\ stickerTo2D(newFi, newM, config)
                                        = stickerTo2D(end, after[move][i].m, config)
                                 /\ (move.dir = 1 /\ tf.stickerAxis # move.axis) =>
                                        ArrowPredictedFace(tf.fi, move.axis) = newFi

\* a scrambled and turned 3x3x3 cube with a sticker whose simulated end is on
\* another face and another position than its start
C26_Witness ==
    /\ puzzle = "cube" /\ config.N = 3
    /\ run.applied >= 2 /\ run.count = 1
    /\ \E move \in Moves(puzzle, config) : \E i \in DOMAIN pieces : \E d \in 0..5 :
           LET tf == TrefoilFace(pieces[i], d, config)
           IN /\ tf.fi >= 0 /\ OnMovingLayer(pieces[i], move)
              /\ move.dir = -1
              /\ PredictedFace(tf.fi, tf.stickerAxis, tf.stickerDir, move.axis, move.dir)
                     # tf.fi
              /\ PredictedM(pieces[i].m, move.axis, move.dir) # pieces[i].m
              /\ PredictedM(pieces[i].m, move.axis, move.dir)
                     = ApplyRotation(puzzle, pieces, move)[i].m

----------------------------------------------------------------------------
(* Cube: the positions of the pieces                                        *)

\* the positions m of a store
Positions(ps) == {ps[i].m : i \in DOMAIN ps}

\* the coordinates i - (N-1)/2, i in 0..N-1, in units of 1/CubeScale
LatticeCoords(N) == {(2 * CubeScale * i - CubeScale * (N - 1)) \div 2 : i \in 0..(N - 1)}

\* C27: after any sequence of committed cube moves the set of piece
\* positions is the one createPieces produced, no two pieces share a
\* position, and every coordinate is i - (N-1)/2 for some i in 0..N-1; one
\* more move of any axis, layer and direction keeps all three.
C27_PositionsPermuted ==
    puzzle = "cube" =>
        LET built == Positions(CreatePieces(puzzle, config))
            lattice == LatticeCoords(config.N)
            Kept(ps) ==
                /\ Positions(ps) = built
                /\ Cardinality(Positions(ps)) = Len(ps)
                /\ \A i \in DOMAIN ps : \A a \in 0..2 : ps[i].m[a] \in lattice
        IN /\ Len(pieces) = Len(CreatePieces(puzzle, config))
           /\ Kept(pieces)
           /\ \A move \in Moves(puzzle, config) : Kept(ApplyRotation(puzzle, pieces, move))

\* a scrambled and turned 3x3x3 cube with a thin border (border width 1:
\* the face centres are missing) in which some piece has left its place
C27_Witness ==
    /\ puzzle = "cube" /\ config.N = 3 /\ config.borderWidth = 1
    /\ run.applied >= 2 /\ run.count = 1
    /\ Len(pieces) = 20
    /\ \E i \in DOMAIN pieces : pieces[i].m # CreatePieces(puzzle, config)[i].m
    /\ Positions(pieces) = Positions(CreatePieces(puzzle, config))

----------------------------------------------------------------------------
(* Pyraminx: the layers of a vertex                                         *)

\* the pieces a move about vertex with the given depth selects
PyraLayer(ps, vertex, depth) ==
    {i \in DOMAIN ps :
        PyraIsPieceInMove(ps[i], [vertex |-> vertex, axis |-> AXES[vertex],
                                  depth |-> depth, dir |-> 1])}

\* C28: in every reachable pyraminx state and for every vertex, depth 0
\* selects exactly one piece, the upright tip with bary[vertex] = N-1, and no
\* gap piece; the set selected at depth d is contained in the one at depth
\* d+1; depth N-1 selects every piece; generateScramble produces only depths
\* in 0..N-2 and resolveMove only depths in 0..N-1.
C28_PyraLayers ==
    puzzle = "pyraminx" =>
        /\ \A vertex \in 0..3 :
               /\ Cardinality(PyraLayer(pieces, vertex, 0)) = 1
               /\ \A i \in PyraLayer(pieces, vertex, 0) :
                      ~pieces[i].isGap /\ pieces[i].bary[vertex] = config.N - 1
               /\ \A d \in 0..(config.N - 2) :
                      PyraLayer(pieces, vertex, d) \subseteq PyraLayer(pieces, vertex, d + 1)
               /\ PyraLayer(pieces, vertex, config.N - 1) = DOMAIN pieces
        /\ \A seed \in ScrambleSeeds :
               LET moves == GenerateScramble(puzzle, config, seed)
               IN \A k \in DOMAIN moves : moves[k].depth \in 0..(config.N - 2)
        /\ \A key \in DOMAIN BaseMoves(puzzle) : \A shift \in BOOLEAN : \A sd \in 0..9 :
               ResolveMove(puzzle, BaseMoves(puzzle)[key], shift,
                           [config EXCEPT !.selectedDepth = sd]).depth \in 0..(config.N - 1)

\* a scrambled and turned pyraminx of size 3 or more whose tip at vertex 0 is
\* another piece than at creation, with layers that grow strictly
C28_Witness ==
    /\ puzzle = "pyraminx" /\ config.N >= 3
    /\ run.applied >= 2 /\ run.count >= 1
    /\ PyraLayer(pieces, 0, 0) # PyraLayer(CreatePieces(puzzle, config), 0, 0)
    /\ \E i \in PyraLayer(pieces, 0, 1) : pieces[i].isGap
    /\ PyraLayer(pieces, 0, 0) # PyraLayer(pieces, 0, 1)
    /\ PyraLayer(pieces, 0, 1) # PyraLayer(pieces, 0, 2)

----------------------------------------------------------------------------
(* InputManager: number keys and the layer of a face-key move               *)

\* config.N || 3
ConfigN(cfg) == IF "N" \in DOMAIN cfg /\ cfg.N # 0 THEN cfg.N ELSE 3

\* the number key stored as it is
DepthOfKeyUnclamped(num, cfg) == num

\* Math.min(num, N)
DepthOfKey(num, cfg) == Min2(num, ConfigN(cfg))

\* _onKeyDown, keys 1..9: this.selectedDepth = Math.min(num, N);
\* config.selectedDepth = this.selectedDepth
KeyNumber(num) ==
    /\ selectedDepth' = DepthOfKey(num, config)
    /\ config' = [config EXCEPT !.selectedDepth = DepthOfKey(num, config)]
    /\ UNCHANGED <<puzzle, pieces, queue, current, moveStart, moveDuration, time, ret,
                   selected, enqueued, committed, history, run>>

MaxDepthMoves == 1     \* face keys pressed per behaviour of the depth checks

\* sizes typed into the Size input: 2 and 4
DepthTexts == {<<"2">>, <<"4">>}

\* number keys explored: below, at and above the sizes
DepthKeys == {2, 4, 9}

DepthNext ==
    \/ \E num \in DepthKeys : KeyNumber(num)
    \/ \E text \in DepthTexts : ChangeNumber("N", text)
    \/ \E pz \in {"cube", "pyraminx"} : LoadPuzzle(pz)
    \/ \E key \in {"u", "i"} : enqueued < MaxDepthMoves /\ PressFace(key, FALSE)
    \/ \E g \in {0, moveDuration} : Frame(time + g)

SpecDepth == ConfigInit /\ [][DepthNext]_vars

\* the moves waiting in the animation queue, the one in flight first
PendingMoves ==
    (IF current # NoMove THEN <<current>> ELSE <<>>) \o queue

\* selectedDepth is within 1..N, and every pending cube move addresses a
\* layer of the cube
DepthInRange ==
    /\ 1 <= selectedDepth /\ selectedDepth <= config.N
    /\ config.selectedDepth <= config.N
    /\ puzzle = "cube" =>
           \A k \in DOMAIN PendingMoves :
               PendingMoves[k].move.layer \in LatticeCoords(config.N)
    /\ puzzle = "cube" =>
           \A key \in FaceKeys(puzzle) : \A shift \in BOOLEAN :
               LET cfg == [config EXCEPT !.selectedDepth = selectedDepth]
                   move == ResolveMove(puzzle, BaseMoves(puzzle)[key], shift, cfg)
               IN /\ move.layer \in LatticeCoords(config.N)
                  /\ selectedDepth = config.N =>
                         move.layer = -BaseMoves(puzzle)[key].side * config.half

\* a step that changes selectedDepth leaves every pending move as it is, or
\* empties the queue (a rebuild); no step alters a move that stays pending
QueuedMovesFixed ==
    /\ selectedDepth' # selectedDepth =>
           \/ queue' = queue /\ current' = current
           \/ queue' = <<>> /\ current' = NoMove
    /\ \A k \in DOMAIN queue' : \A j \in DOMAIN queue :
           queue'[k].id = queue[j].id => queue'[k] = queue[j]
    /\ \A j \in DOMAIN queue :
           (current' # NoMove /\ current'.id = queue[j].id) => current' = queue[j]

\* C29: after any sequence of number keys, config changes and puzzle loads
\* 1 <= selectedDepth <= N holds, every cube move a face key produces has a
\* layer i - (N-1)/2 with i in 0..N-1 (selectedDepth = N addresses the
\* opposite outer layer), and the layer is fixed when the key is pressed:
\* changing selectedDepth afterwards does not alter a move already queued.
C29_ExistingLayer == [](DepthInRange) /\ [][QueuedMovesFixed]_vars

\* the cube at size 4: a move queued at depth 4 (the opposite outer layer) is
\* still pending unchanged after the depth was set back to 2
C29_Witness ==
    /\ puzzle = "cube" /\ config.N = 4
    /\ selectedDepth = 2
    /\ queue # <<>>
    /\ queue[Len(queue)].move
           = ResolveMove(puzzle, BaseMoves(puzzle)["u"], FALSE,
                         [config EXCEPT !.selectedDepth = 4])
    /\ queue[Len(queue)].move.layer = config.half

----------------------------------------------------------------------------
(* Click a sticker, then press an arrow key: InputManager and Renderer3D    *)
(*                                                                         *)
(* The view angles enter the handler only through their cosine and sine.   *)
(* A view angle is a record [c, s] holding both in fifths, drawn from      *)
(* directions where both are rational.  run.viewYaw and run.viewPitch are  *)
(* Renderer3D.viewYaw and viewPitch; the initial 0.6 and -0.7 are taken as *)
(* the directions (4/5, 3/5) and (4/5, -3/5).                              *)

MaxArrows == 1        \* arrow keys pressed with a selection per behaviour
MaxClickPiece == 3    \* clicks land on the first MaxClickPiece pieces of the store

\* viewYaw values a drag can leave
ViewYaws == {[c |-> 4, s |-> 3], [c |-> 0, s |-> 5], [c |-> -3, s |-> -4]}

\* viewPitch values a drag can leave: the handler clamps to [-PI/2, PI/2]
ViewPitches == {[c |-> 4, s |-> -3], [c |-> 3, s |-> 4]}

\* worldToScreen(dx, dy, dz, viewYaw, viewPitch), both components times 25
worldToScreen(d, yaw, pitch) ==
    <<5 * (d[0] * yaw.c - d[2] * yaw.s),
      5 * d[1] * pitch.c - (d[0] * yaw.s + d[2] * yaw.c) * pitch.s>>

\* FACE_DEFS of the pyraminx: the vertex slots of the eight triangles
PYRA_FACE_DEFS ==
    [d \in 0..(PYRA_FACE_COUNT - 1) |->
        CASE d = 0 -> <<3, 4, 5>>
          [] d = 1 -> <<1, 5, 2>>
          [] d = 2 -> <<0, 2, 4>>
          [] d = 3 -> <<0, 3, 1>>
          [] d = 4 -> <<0, 1, 2>>
          [] d = 5 -> <<0, 4, 3>>
          [] d = 6 -> <<1, 3, 5>>
          [] d = 7 -> <<2, 5, 4>>]

\* FACE_NORMALS times sqrt(3): the outward normal of the face opposite vertex i
PYRA_FACE_NORMALS ==
    [i \in 0..3 |->
        CASE i = 0 -> [a \in 0..2 |-> -1]
          [] i = 1 -> [a \in 0..2 |-> IF a = 0 THEN -1 ELSE 1]
          [] i = 2 -> [a \in 0..2 |-> IF a = 1 THEN -1 ELSE 1]
          [] i = 3 -> [a \in 0..2 |-> IF a = 2 THEN -1 ELSE 1]]

\* def.idx.map(i => piece.p[i]) for a pyraminx piece
PyraSlotVerts(piece, defIdx) ==
    [k \in 1..3 |-> piece.p[PYRA_FACE_DEFS[defIdx][k]]]

\* the cross product (b - a) x (c - a) of detectWorldFace
PyraFaceNormal(a, b, c) ==
    [x \in 0..2 |->
        (b[(x + 1) % 3] - a[(x + 1) % 3]) * (c[(x + 2) % 3] - a[(x + 2) % 3])
        - (b[(x + 2) % 3] - a[(x + 2) % 3]) * (c[(x + 1) % 3] - a[(x + 1) % 3])]

\* n . FACE_NORMALS[i] times sqrt(3), in units of 1/(PyraScale*N)^2
PyraNormalDot(n, i) ==
    n[0] * PYRA_FACE_NORMALS[i][0] + n[1] * PYRA_FACE_NORMALS[i][1]
    + n[2] * PYRA_FACE_NORMALS[i][2]

\* bestDot > 0.1 for bestDot = x / (sqrt(3) (PyraScale N)^2), that is
\* x > 1440 sqrt(3) N^2, where 2494 < 1440 sqrt(3) < 2495
PyraAboveTenth(x, N) ==
    \/ x >= 2495 * N * N
    \/ x > 2494 * N * N /\ x * x > 6220800 * N * N * N * N

\* the loop over the four parent faces: the first largest dot product wins
PyraBestFace(n) ==
    CHOOSE i \in 0..3 :
        /\ \A j \in 0..3 : PyraNormalDot(n, j) <= PyraNormalDot(n, i)
        /\ \A j \in 0..3 : j < i => PyraNormalDot(n, j) < PyraNormalDot(n, i)

PyraDetectOf(n, N) ==
    IF PyraAboveTenth(PyraNormalDot(n, PyraBestFace(n)), N) THEN PyraBestFace(n) ELSE -1

\* PyraminxPuzzle.detectWorldFace(piece, faceVerts)
PyraDetectWorldFace(faceVerts, N) ==
    PyraDetectOf(PyraFaceNormal(faceVerts[1], faceVerts[2], faceVerts[3]), N)

\* number of face slots of a piece: puzzle.faceDefs.length
FaceSlots(pz) == IF pz = "cube" THEN 0..5 ELSE 0..(PYRA_FACE_COUNT - 1)

\* render: faceIndex = sticker ? puzzle.detectWorldFace(piece, facePs, config) : -1
RenderedFaceIndex(pz, piece, defIdx, cfg) ==
    IF piece.stickers[defIdx] = NoSticker THEN -1
    ELSE IF pz = "cube" THEN CubeDetectWorldFace(piece, CubeSlotVerts(piece, defIdx))
    ELSE PyraDetectWorldFace(PyraSlotVerts(piece, defIdx), cfg.N)

\* puzzle.constructor.FACE_AXIS || null, then lookup ? lookup[faceIndex] : 0
FaceAxisLookup(pz, faceIndex) == IF pz = "cube" THEN FACE_AXIS[faceIndex] ELSE 0

\* the object hitTest returns for a listed face
HitOf(pz, piece, faceIndex) ==
    [faceIndex |-> faceIndex, faceAxis |-> FaceAxisLookup(pz, faceIndex),
     m |-> piece.m, from |-> "3d"]

\* the object getClickTarget returns for a listed sticker
ClickTargetOf(piece, fi) ==
    [faceIndex |-> fi, faceAxis |-> FACE_AXIS[fi], m |-> piece.m, from |-> "2d"]

\* 0.01 in the units of the puzzle's coordinates, times 100
CoordScale(pz, cfg) == IF pz = "cube" THEN CubeScale ELSE PyraScale * cfg.N

\* PuzzleDefinition.findPieceAt(pieces, m): index of the first piece within
\* 0.01 of m on every coordinate, 0 for undefined
findPieceAt(pz, cfg, ps, m) ==
    IF \E i \in DOMAIN ps : \A a \in 0..2 : 100 * Abs(ps[i].m[a] - m[a]) < CoordScale(pz, cfg)
    THEN CHOOSE i \in DOMAIN ps :
             /\ \A a \in 0..2 : 100 * Abs(ps[i].m[a] - m[a]) < CoordScale(pz, cfg)
             /\ \A j \in DOMAIN ps :
                    (\A a \in 0..2 : 100 * Abs(ps[j].m[a] - m[a]) < CoordScale(pz, cfg)) => i <= j
    ELSE 0

\* screenDir of ArrowRight, ArrowLeft, ArrowDown and ArrowUp
ScreenDirs == {<<1, 0>>, <<-1, 0>>, <<0, 1>>, <<0, -1>>}

\* [0, 1, 2].filter(i => i !== faceAxis)
TangentAxes(faceAxis) == OtherAxes(faceAxis)

\* vel[a] = -m[b]; vel[b] = m[a] for [a, b] the axes other than rotAxis
ArrowVelocity(m, rotAxis) ==
    [x \in 0..2 |->
        IF x = OtherAxes(rotAxis)[1] THEN -m[OtherAxes(rotAxis)[2]]
        ELSE IF x = OtherAxes(rotAxis)[2] THEN m[OtherAxes(rotAxis)[1]]
        ELSE 0]

\* dot = sx * screenDir[0] + sy * screenDir[1]
ScreenDot(s, screenDir) == s[1] * screenDir[1] + s[2] * screenDir[2]

\* the dot product of the 3D branch for one rotation axis
ArrowDot3D(m, rotAxis, screenDir, yaw, pitch) ==
    ScreenDot(worldToScreen(ArrowVelocity(m, rotAxis), yaw, pitch), screenDir)

\* bestAxis, bestDir, bestDot before the loop; fresh stands for -Infinity
ArrowStart(tangentAxes) == [axis |-> tangentAxes[1], dir |-> 1, dot |-> 0, fresh |-> TRUE]

\* if (Math.abs(dot) > bestDot) { bestDot, bestAxis, bestDir = ... }
ArrowStep(best, rotAxis, dot) ==
    IF best.fresh \/ Abs(dot) > best.dot
    THEN [axis |-> rotAxis, dir |-> IF dot > 0 THEN 1 ELSE -1, dot |-> Abs(dot),
          fresh |-> FALSE]
    ELSE best

\* the loop over the two tangent axes, given the dot product of each axis
ArrowLoop(tangentAxes, dots) ==
    ArrowStep(ArrowStep(ArrowStart(tangentAxes), tangentAxes[1], dots[tangentAxes[1]]),
              tangentAxes[2], dots[tangentAxes[2]])

\* { axis: bestAxis, layer: m[bestAxis], dir: bestDir }
ArrowMoveOf(m, best) == [axis |-> best.axis, layer |-> m[best.axis], dir |-> best.dir]

\* CubePuzzle.resolveArrowMove(piece, faceIndex, screenDir, viewYaw, viewPitch)
CubeResolveArrowMove(piece, faceIndex, screenDir, yaw, pitch) ==
    ArrowMoveOf(piece.m,
                ArrowLoop(TangentAxes(FACE_AXIS[faceIndex]),
                          [x \in 0..2 |-> ArrowDot3D(piece.m, x, screenDir, yaw, pitch)]))

\* puzzle.resolveArrowMove: the base class returns null, the cube overrides it
ResolveArrowMove(pz, piece, faceIndex, screenDir, yaw, pitch) ==
    IF pz = "cube" THEN CubeResolveArrowMove(piece, faceIndex, screenDir, yaw, pitch)
    ELSE NoMove

\* computeArrowDirection(selPiece, fi, rotAxis, config) for the three
\* rotation axes: differences of sticker positions of the 2D layout, which
\* are real-valued circle intersections; the displacements are an input
Displacements == {[x \in 0..2 |-> <<3, 1>>], [x \in 0..2 |-> <<(-1) * x, 2 - x>>]}

\* the move the arrow-key branch of _onKeyDown hands to queueMove
ArrowKeyMove(sel, m, screenDir, yaw, pitch, disp, view2d) ==
    ArrowMoveOf(m,
        IF sel.from = "3d"
        THEN ArrowLoop(TangentAxes(sel.faceAxis),
                       [x \in 0..2 |-> ArrowDot3D(m, x, screenDir, yaw, pitch)])
        ELSE IF view2d
        THEN ArrowLoop(TangentAxes(sel.faceAxis),
                       [x \in 0..2 |-> ScreenDot(disp[x], screenDir)])
        ELSE ArrowStart(TangentAxes(sel.faceAxis)))

\* engine.view2d: set by loadPuzzle for a puzzle with has2DView
HasView2D(pz) == pz = "cube"

\* window 'mousemove' while dragging: the view angles change
Drag(yaw, pitch) ==
    /\ run' = [run EXCEPT !.viewYaw = yaw, !.viewPitch = pitch]
    /\ UNCHANGED <<puzzle, config, pieces, queue, current, moveStart, moveDuration,
                   time, ret, selectedDepth, selected, enqueued, committed, history>>

\* canvas3d 'click' on face slot d of piece i: this.selected = hitTest(...).
\* hitTest skips the faces with faceIndex < 0; which listed face lies under
\* the pointer is the input (culling and depth order are not modelled)
Click3D(i, d) ==
    /\ i \in DOMAIN pieces /\ d \in FaceSlots(puzzle)
    /\ RenderedFaceIndex(puzzle, pieces[i], d, config) >= 0
    /\ ClickSelect(HitOf(puzzle, pieces[i], RenderedFaceIndex(puzzle, pieces[i], d, config)))

\* canvas2d 'click' on the sticker of face slot d of cubie i
Click2D(i, d) ==
    /\ HasView2D(puzzle)
    /\ i \in DOMAIN pieces /\ d \in 0..5
    /\ TrefoilFace(pieces[i], d, config).fi >= 0
    /\ ClickSelect(ClickTargetOf(pieces[i], TrefoilFace(pieces[i], d, config).fi))

\* a click that hits nothing: this.selected = null
ClickNothing == ClickSelect(NoSelection)

\* queueMove(move) of the arrow-key branch
ArrowQueued(move) ==
    /\ queue' = Pushed(queue, enqueued, <<move>>)
    /\ history' = Append(history, move)
    /\ enqueued' = enqueued + 1

\* the arrow-key branch once findPieceAt has answered idx
ArrowOnPiece(idx, screenDir, disp) ==
    IF idx = 0
    THEN UNCHANGED <<queue, history, enqueued>>
    ELSE ArrowQueued(ArrowKeyMove(selected, pieces[idx].m, screenDir, run.viewYaw,
                                  run.viewPitch, disp, HasView2D(puzzle)))

\* _onKeyDown, arrow key with a selection
KeyArrow(screenDir, disp) ==
    /\ selected # NoSelection
    /\ run.arrows < MaxArrows
    /\ ArrowOnPiece(findPieceAt(puzzle, config, pieces, selected.m), screenDir, disp)
    /\ run' = [run EXCEPT !.arrows = @ + 1]
    /\ UNCHANGED <<puzzle, config, pieces, current, moveStart, moveDuration, time, ret,
                   selectedDepth, committed, selected>>

ArrowInit ==
    /\ \E pz \in {"cube", "pyraminx"} : EngineLoaded([pz |-> pz, N |-> DefaultConfig(pz).N])
    /\ run = [viewYaw |-> [c |-> 4, s |-> 3], viewPitch |-> [c |-> 4, s |-> -3],
              arrows |-> 0]

\* the frames are explored on the cube, where an arrow move is a layer turn
ArrowNext ==
    \/ \E yaw \in ViewYaws, pitch \in ViewPitches : Drag(yaw, pitch)
    \/ \E i \in 1..MaxClickPiece, d \in FaceSlots(puzzle) : Click3D(i, d)
    \/ \E i \in 1..MaxClickPiece, d \in 0..5 : Click2D(i, d)
    \/ ClickNothing
    \/ \E screenDir \in ScreenDirs, disp \in Displacements : KeyArrow(screenDir, disp)
    \/ \E g \in {0, moveDuration} : puzzle = "cube" /\ Frame(time + g)

SpecArrow == ArrowInit /\ [][ArrowNext]_vars

\* an arrow key was pressed while a sticker was selected
ArrowPressed == selected # NoSelection /\ run'.arrows = run.arrows + 1

\* the piece the selection points at
SelectedPiece == pieces[findPieceAt(puzzle, config, pieces, selected.m)]

\* exactly one move was enqueued; it turns about an axis other than the
\* selected face's and its layer is the selected piece's coordinate on it
ArrowTurnQueued ==
    /\ findPieceAt(puzzle, config, pieces, selected.m) # 0
    /\ Len(queue') = Len(queue) + 1
    /\ SubSeq(queue', 1, Len(queue)) = queue
    /\ queue'[Len(queue')].move.axis \in 0..2
    /\ queue'[Len(queue')].move.axis # selected.faceAxis
    /\ queue'[Len(queue')].move.layer = SelectedPiece.m[queue'[Len(queue')].move.axis]
    /\ queue'[Len(queue')].move.dir \in {1, -1}

\* what the contract asks of one arrow key press
ArrowContract ==
    IF ResolveArrowMove(puzzle, SelectedPiece, selected.faceIndex, <<1, 0>>,
                        run.viewYaw, run.viewPitch) = NoMove
    THEN queue' = queue /\ enqueued' = enqueued
    ELSE ArrowTurnQueued

\* C30: an arrow key pressed while a sticker is selected enqueues a move only
\* when the loaded puzzle's resolveArrowMove supports it: on a puzzle whose
\* resolveArrowMove returns null (the pyraminx) nothing is enqueued, and on
\* the cube one move is enqueued whose axis differs from the selected face's
\* axis and whose layer is the selected piece's coordinate on that axis.
C30_ArrowContract == [][ArrowPressed => ArrowContract]_vars

\* the cube's half of the contract: every arrow key press on the cube
\* enqueues one such move, and after a click in the 3D view it is the move
\* CubePuzzle.resolveArrowMove computes for the same press
ArrowOnCube ==
    [][(ArrowPressed /\ puzzle = "cube") =>
          /\ ArrowTurnQueued
          /\ selected.from = "3d" =>
                 \E screenDir \in ScreenDirs :
                     queue'[Len(queue')].move
                         = ResolveArrowMove(puzzle, SelectedPiece, selected.faceIndex,
                                            screenDir, run.viewYaw, run.viewPitch)]_vars

\* on the pyraminx every arrow key press with a selection enqueues a move
ArrowOnPyraminx ==
    [][(ArrowPressed /\ puzzle = "pyraminx") => Len(queue') = Len(queue) + 1]_vars

====
